---- MODULE Spec2Model ----
(***************************************************************************)
(* Model of colabfold/batch.py: run() with its background worker           *)
(* fetch_msas_in_background, the shared mailbox msa_data_store, the        *)
(* fold-id registry global_fold_ids and the completion-marker files        *)
(* (specification Spec); the alignment text functions pair_sequences,      *)
(* pad_sequences, pair_msa, msa_to_str and unserialize_msa (MsaSpec);      *)
(* crop_msa and its guarded call sites (CropSpec); the lookups of the      *)
(* template and alignment stores (StoreSpec).                              *)
(***************************************************************************)
EXTENDS Integers, Sequences, FiniteSets, TLC

(* ---------------------------------------------------------------------- *)
(* Bounds and input domains                                                *)
(* ---------------------------------------------------------------------- *)

\* number of entries of the queries list
NumJobs == 2

Jobs == 1..NumJobs

\* job names after safe_filename; two jobs may carry the same name
Names == {"A", "B"}

\* a3m_lines of a query: None, text that unserialize_msa decodes, text on
\* which unserialize_msa raises
A3mKinds == {"none", "good", "bad"}

Query == [name : Names, a3m : A3mKinds]

(* ---------------------------------------------------------------------- *)
(* State                                                                   *)
(* ---------------------------------------------------------------------- *)

VARIABLES
    queries,                \* run(queries, ...): the job list
    use_templates,          \* run(..., use_templates)
    keep_existing_results,  \* run(..., keep_existing_results)
    zip_results,            \* run(..., zip_results)
    done_markers,           \* names n with <n>.done.txt in result_dir
    result_zips,            \* names n with <n>.result.zip in result_dir
    msa_data_store,         \* the mailbox: name -> entry
    global_fold_ids,        \* module-level registry: name -> uuid (0: no key)
    next_uuid,              \* the next value uuid.uuid4() yields
    a3m_files,              \* fold id written into <n>.a3m.xz (0: no file)
    score_files,            \* fold id written into <n>'s score/PDB outputs
    w_job, w_pc, w_fold,    \* worker: loop index, position, local fold_id
    f_job, f_pc, f_fold,    \* foreground: loop index, position, local fold_id
    f_slept,                \* foreground logged WAITING and slept for this job
    stores,                 \* history: job -> number of data_store[..] = .. run
    w_reach,                \* history: job -> "skipped" or "try" once reached
    w_acquired,             \* history: jobs the worker ran the acquisition for
    w_failed,               \* history: jobs whose except handler ran
    f_reach,                \* history: job -> furthest foreground stage
    f_taken,                \* history: job -> entry the foreground popped
    fold_returned,          \* history: name -> ids get_fold_id has returned
    pre_done, pre_zip,      \* history: marker files present when run() began
    job,                    \* MsaSpec: the 4-tuple of one job's alignment data
    msa,                    \* MsaSpec: the text last built or read
    msa_from,               \* MsaSpec: the function or file that gave msa
    decoded,                \* MsaSpec: what unserialize_msa(msa) returned
    input_feature,          \* MsaSpec: what generate_input_feature returned
    crop_call,              \* CropSpec: the text and region of one cropping
    crop_ret,               \* CropSpec: what the cropping returned
    store_files,            \* StoreSpec: store -> id -> the file <id>.pkl
    clock,                  \* StoreSpec: time.time()
    lookup,                 \* StoreSpec: the last lookup and its outcome
    acq_store,              \* AcqSpec: store -> id -> the file <id>.pkl
    acq_call,               \* AcqSpec: the arguments of the last acquisition
    acq_ret                 \* AcqSpec: what it returned, searched and wrote

inputs == <<queries, use_templates, keep_existing_results, zip_results,
            pre_done, pre_zip>>
files == <<done_markers, result_zips, a3m_files, score_files>>
registry == <<global_fold_ids, next_uuid, fold_returned>>
worker == <<w_job, w_pc, w_fold, w_reach, w_acquired, w_failed>>
foreground == <<f_job, f_pc, f_fold, f_slept, f_reach, f_taken>>
mailbox == <<msa_data_store, stores>>

codec == <<job, msa, msa_from, decoded, input_feature>>
cropper == <<crop_call, crop_ret>>
cache == <<store_files, clock, lookup>>
acquisition == <<acq_store, acq_call, acq_ret>>

\* the state of run() and the state of the text functions
runstate == <<inputs, files, registry, worker, foreground, mailbox>>
textstate == <<codec, cropper, cache, acquisition>>

\* what no step of run() writes
fixed == <<inputs, textstate>>

vars == <<runstate, textstate>>

(* ---------------------------------------------------------------------- *)
(* Mailbox entries                                                         *)
(* ---------------------------------------------------------------------- *)

\* no key in the dict
Absent == [kind |-> "absent", job |-> 0, src |-> "-"]

\* get_msa_and_templates_v3 returned None (a remote search raised)
NoneEntry(j) == [kind |-> "None", job |-> j, src |-> "search"]

\* the sentinel 'error'
ErrorEntry(j) == [kind |-> "error", job |-> j, src |-> "-"]

\* a 5-tuple, from get_msa_and_templates_v3 ("search") or from
\* unserialize_msa ("a3m")
ResultEntry(j, s) == [kind |-> "result", job |-> j, src |-> s]

JobName(j) == queries[j].name

\* `if use_templates or a3m_lines is None`
NeedsSearch(j) == use_templates \/ queries[j].a3m = "none"

\* dict: d[k] = v
Put(d, k, v) == [d EXCEPT ![k] = v]

\* a pop that empties the dict instead of removing one key
PopClear(d, k) == [n \in DOMAIN d |-> Absent]

\* dict: d.pop(k, None), the dict that is left
Pop(d, k) == [d EXCEPT ![k] = Absent]

\* dict: k in d
Has(d, k) == d[k].kind # "absent"

(* ---------------------------------------------------------------------- *)
(* Values of the text functions' state while none of them has run          *)
(* ---------------------------------------------------------------------- *)

\* Python's None where a list of strings may stand, and a list that is there
None == [some |-> FALSE, v |-> <<>>]
Some(list) == [some |-> TRUE, v |-> list]

\* no job tuple: the text was read from a file
NoJob == [unpaired |-> None, paired |-> None, seqs |-> <<>>, cards |-> <<>>]

\* unserialize_msa has not been called
NotDecoded == [exc |-> "not called", unpaired |-> <<>>, paired |-> None,
               seqs |-> <<>>, cards |-> <<>>]

\* generate_input_feature has not been called
NotBuilt == [exc |-> "not called", path |-> "none", seqs |-> <<>>,
             cards |-> <<>>, sequence |-> <<>>, a3m_lines |-> <<>>,
             residue_index |-> <<>>, asym_id |-> <<>>]

\* crop_msa has not been called
NoCall == [fn |-> "none", text |-> <<>>, valid_name |-> FALSE,
           region |-> <<1, -1>>]

\* no lookup of a store has run
NoLookup == [fn |-> "none", store |-> "-", seq |-> <<>>, age |-> -1,
             hit |-> FALSE, seqs_to_fetch |-> <<>>]

CodecIdle ==
    /\ job = NoJob
    /\ msa = <<>>
    /\ msa_from = "none"
    /\ decoded = NotDecoded
    /\ input_feature = NotBuilt

CropIdle == crop_call = NoCall /\ crop_ret = <<>>

StoreIdle == store_files = <<>> /\ clock = 0 /\ lookup = NoLookup

\* no acquisition routine has been called
NoAcqCall == [fn |-> "none", query_sequences |-> <<>>, names |-> <<>>,
              msa_mode |-> "none", use_templates |-> FALSE,
              pair_mode |-> "none", found |-> "none", size |-> 0]

AcqIdle == acq_store = <<>> /\ acq_call = NoAcqCall /\ acq_ret = <<>>

TextIdle == CodecIdle /\ CropIdle /\ StoreIdle /\ AcqIdle

(* ---------------------------------------------------------------------- *)
(* Initial state: run() has started msa_bg_thread                          *)
(* ---------------------------------------------------------------------- *)

Init ==
    /\ TextIdle
    /\ queries \in [Jobs -> Query]
    \* the names are interchangeable: the first job is the one called "A"
    /\ queries[1].name = "A"
    /\ use_templates \in BOOLEAN
    /\ keep_existing_results \in BOOLEAN
    /\ zip_results \in BOOLEAN
    /\ done_markers \in SUBSET Names
    /\ result_zips \in SUBSET Names
    \* an earlier run left at most one completion file; the files are read
    \* only under keep_existing_results
    /\ Cardinality(done_markers) + Cardinality(result_zips)
          <= (IF keep_existing_results THEN 1 ELSE 0)
    /\ pre_done = done_markers
    /\ pre_zip = result_zips
    /\ msa_data_store = [n \in Names |-> Absent]
    /\ global_fold_ids = [n \in Names |-> 0]
    /\ next_uuid = 1
    /\ a3m_files = [n \in Names |-> 0]
    /\ score_files = [n \in Names |-> 0]
    /\ w_job = 1 /\ w_pc = "loop" /\ w_fold = 0
    /\ f_job = 1 /\ f_pc = "loop" /\ f_fold = 0
    /\ f_slept = FALSE
    /\ stores = [j \in Jobs |-> 0]
    /\ w_reach = [j \in Jobs |-> "none"]
    /\ w_acquired = {}
    /\ w_failed = {}
    /\ f_reach = [j \in Jobs |-> "none"]
    /\ f_taken = [j \in Jobs |-> Absent]
    /\ fold_returned = [n \in Names |-> {}]

(* ---------------------------------------------------------------------- *)
(* The background worker: fetch_msas_in_background                         *)
(* ---------------------------------------------------------------------- *)

\* data_store[jobname] = v
W_Store(j, v) ==
    /\ msa_data_store' = Put(msa_data_store, JobName(j), v)
    /\ stores' = [stores EXCEPT ![j] = @ + 1]

\* `continue`: on to the next job
W_Continue(j) ==
    /\ w_job' = j + 1
    /\ w_pc' = "loop"
    /\ w_fold' = 0

\* a handler that logs and continues without storing the sentinel
W_ExceptDrop(j) ==
    /\ UNCHANGED mailbox
    /\ w_failed' = w_failed \cup {j}
    /\ W_Continue(j)

\* except Exception: log, data_store[jobname] = 'error', continue
W_Except(j) ==
    /\ W_Store(j, ErrorEntry(j))
    /\ w_failed' = w_failed \cup {j}
    /\ W_Continue(j)

\* the step went through without raising: on to position pc of the try
W_Goto(pc) ==
    /\ w_pc' = pc
    /\ UNCHANGED <<w_job, w_fold, w_failed>>

\* a worker that never looks for the done marker
W_NeverDone(j) == FALSE

\* `if keep_existing_results and is_done_marker.is_file()`
W_AlreadyDone(j) == keep_existing_results /\ JobName(j) \in done_markers

\* for ... in enumerate(queries): the done-marker check, then into the try
WorkerLoop ==
    /\ w_pc = "loop"
    /\ IF w_job > NumJobs
       THEN /\ w_pc' = "done"
            /\ UNCHANGED <<w_job, w_fold, w_reach>>
       ELSE IF W_AlreadyDone(w_job)
       THEN /\ W_Continue(w_job)
            /\ w_reach' = [w_reach EXCEPT ![w_job] = "skipped"]
       ELSE /\ w_pc' = IF NeedsSearch(w_job) THEN "acquire" ELSE "unserialize"
            /\ w_reach' = [w_reach EXCEPT ![w_job] = "try"]
            /\ UNCHANGED <<w_job, w_fold>>
    /\ UNCHANGED <<fixed, files, registry, w_acquired, w_failed, foreground,
                   mailbox>>

\* data_store[jobname] = get_msa_and_templates_v3(...): the call returns a
\* tuple, returns None (a remote search raised inside it), or raises
WorkerAcquire ==
    /\ w_pc = "acquire"
    /\ w_acquired' = w_acquired \cup {w_job}
    /\ \E outcome \in {"ok", "none", "raise"} :
        IF outcome = "raise"
        THEN W_Except(w_job)
        ELSE /\ W_Store(w_job, IF outcome = "ok"
                                THEN ResultEntry(w_job, "search")
                                ELSE NoneEntry(w_job))
             /\ W_Goto(IF queries[w_job].a3m # "none" THEN "unserialize" ELSE "read")
    /\ UNCHANGED <<fixed, files, registry, w_reach, foreground>>

\* if a3m_lines is not None: data_store[jobname] = unserialize_msa(...)
WorkerUnserialize ==
    /\ w_pc = "unserialize"
    /\ IF queries[w_job].a3m = "good"
       THEN /\ W_Store(w_job, ResultEntry(w_job, "a3m"))
            /\ W_Goto("read")
       ELSE W_Except(w_job)
    /\ UNCHANGED <<fixed, files, registry, w_reach, w_acquired, foreground>>

\* (...) = data_store[jobname]; msa = msa_to_str(...): the read raises
\* KeyError when the key is gone and the unpacking raises on None
WorkerSerialize ==
    /\ w_pc = "read"
    /\ IF msa_data_store[JobName(w_job)].kind = "result"
       THEN \E ok \in BOOLEAN :
            IF ok
            THEN /\ W_Goto("fold_check")
                 /\ UNCHANGED mailbox
            ELSE W_Except(w_job)
       ELSE W_Except(w_job)
    /\ UNCHANGED <<fixed, files, registry, w_reach, w_acquired, foreground>>

\* dict: `prefix in global_fold_ids`
FoldKnown(reg, prefix) == reg[prefix] # 0

\* fold_id = get_fold_id(jobname), its first line: the membership test, and
\* on a hit the return of the stored id
WorkerFoldCheck ==
    /\ w_pc = "fold_check"
    /\ IF FoldKnown(global_fold_ids, JobName(w_job))
       THEN /\ w_fold' = global_fold_ids[JobName(w_job)]
            /\ fold_returned' = [fold_returned EXCEPT ![JobName(w_job)] =
                                    @ \cup {global_fold_ids[JobName(w_job)]}]
            /\ w_pc' = "write_file"
       ELSE /\ w_pc' = "fold_write"
            /\ UNCHANGED <<w_fold, fold_returned>>
    /\ UNCHANGED <<fixed, files, global_fold_ids, next_uuid, w_job, w_reach,
                   w_acquired, w_failed, foreground, mailbox>>

\* global_fold_ids[prefix] = str(uuid.uuid4())
WorkerFoldWrite ==
    /\ w_pc = "fold_write"
    /\ global_fold_ids' = Put(global_fold_ids, JobName(w_job), next_uuid)
    /\ next_uuid' = next_uuid + 1
    /\ w_pc' = "fold_ret"
    /\ UNCHANGED <<fixed, files, fold_returned, w_job, w_fold, w_reach,
                   w_acquired, w_failed, foreground, mailbox>>

\* return global_fold_ids[prefix]
WorkerFoldRet ==
    /\ w_pc = "fold_ret"
    /\ w_fold' = global_fold_ids[JobName(w_job)]
    /\ fold_returned' = [fold_returned EXCEPT ![JobName(w_job)] =
                            @ \cup {global_fold_ids[JobName(w_job)]}]
    /\ w_pc' = "write_file"
    /\ UNCHANGED <<fixed, files, global_fold_ids, next_uuid, w_job, w_reach,
                   w_acquired, w_failed, foreground, mailbox>>

\* with lzma.open(msa_filename, 'wb') as handle: handle.write(...)
WorkerWriteFile ==
    /\ w_pc = "write_file"
    /\ \E ok \in BOOLEAN :
        IF ok
        THEN /\ a3m_files' = Put(a3m_files, JobName(w_job), w_fold)
             /\ W_Continue(w_job)
             /\ UNCHANGED <<w_failed, mailbox>>
        ELSE /\ W_Except(w_job)
             /\ UNCHANGED a3m_files
    /\ UNCHANGED <<fixed, done_markers, result_zips, score_files, registry,
                   w_reach, w_acquired, foreground>>

(* ---------------------------------------------------------------------- *)
(* The foreground loop of run()                                            *)
(* ---------------------------------------------------------------------- *)

\* `continue`: on to the next job
F_Continue(j) ==
    /\ f_job' = j + 1
    /\ f_pc' = "loop"
    /\ f_fold' = 0

\* `if keep_existing_results and result_zip.is_file()`
F_HasResultZip(j) == keep_existing_results /\ JobName(j) \in result_zips

\* `if keep_existing_results and is_done_marker.is_file()`
F_AlreadyDone(j) == keep_existing_results /\ JobName(j) \in done_markers

\* for ... in enumerate(queries): the result.zip check, the done-marker
\* check, then into the first try
FgLoop ==
    /\ f_pc = "loop"
    /\ IF f_job > NumJobs
       THEN /\ f_pc' = "join"
            /\ UNCHANGED <<f_job, f_fold, f_reach>>
       ELSE IF F_HasResultZip(f_job)
       THEN /\ F_Continue(f_job)
            /\ f_reach' = [f_reach EXCEPT ![f_job] = "skipped"]
       ELSE IF F_AlreadyDone(f_job)
       THEN /\ F_Continue(f_job)
            /\ f_reach' = [f_reach EXCEPT ![f_job] = "skipped"]
       ELSE /\ f_pc' = IF NeedsSearch(f_job) THEN "wait" ELSE "features"
            /\ f_reach' = [f_reach EXCEPT ![f_job] = "msa"]
            /\ UNCHANGED <<f_job, f_fold>>
    /\ UNCHANGED <<fixed, files, registry, worker, f_slept, f_taken, mailbox>>

\* while jobname not in msa_data_store: log WAITING, time.sleep(10)
FgSleep ==
    /\ f_pc = "wait"
    /\ ~Has(msa_data_store, JobName(f_job))
    /\ ~f_slept
    /\ f_slept' = TRUE
    /\ f_reach' = [f_reach EXCEPT ![f_job] = "waited"]
    /\ UNCHANGED <<fixed, files, registry, worker, f_job, f_pc, f_fold,
                   f_taken, mailbox>>

\* the while condition is false: the key is in the mailbox
FgWaitEnd ==
    /\ f_pc = "wait"
    /\ Has(msa_data_store, JobName(f_job))
    /\ f_pc' = "check_none"
    /\ f_slept' = FALSE
    /\ f_reach' = [f_reach EXCEPT ![f_job] = "waited"]
    /\ UNCHANGED <<fixed, files, registry, worker, f_job, f_fold, f_taken,
                   mailbox>>

\* if msa_data_store[jobname] is None ...: raise RuntimeError, caught by
\* the except of the same try, continue
FgCheckNone ==
    /\ f_pc = "check_none"
    /\ IF msa_data_store[JobName(f_job)].kind = "None"
       THEN F_Continue(f_job)
       ELSE /\ f_pc' = "check_error"
            /\ UNCHANGED <<f_job, f_fold>>
    /\ UNCHANGED <<fixed, files, registry, worker, f_slept, f_reach, f_taken,
                   mailbox>>

\* ... or msa_data_store[jobname] == 'error': raise RuntimeError, caught,
\* continue
FgCheckError ==
    /\ f_pc = "check_error"
    /\ IF msa_data_store[JobName(f_job)].kind = "error"
       THEN F_Continue(f_job)
       ELSE /\ f_pc' = "pop"
            /\ UNCHANGED <<f_job, f_fold>>
    /\ UNCHANGED <<fixed, files, registry, worker, f_slept, f_reach, f_taken,
                   mailbox>>

\* (...) = msa_data_store.pop(jobname, None): unpacking None raises
\* TypeError (caught, continue); the 5 characters of 'error' unpack
FgPop ==
    /\ f_pc = "pop"
    /\ msa_data_store' = Pop(msa_data_store, JobName(f_job))
    /\ IF msa_data_store[JobName(f_job)].kind \in {"None", "absent"}
       THEN /\ F_Continue(f_job)
            /\ UNCHANGED f_taken
       ELSE /\ f_taken' = [f_taken EXCEPT ![f_job] = msa_data_store[JobName(f_job)]]
            /\ f_pc' = "features"
            /\ UNCHANGED <<f_job, f_fold>>
    /\ UNCHANGED <<fixed, files, registry, worker, f_slept, f_reach, stores>>

\* the tuple the foreground holds after the first try came from a 5-tuple,
\* not from the characters of 'error'
F_DataUsable(j) == NeedsSearch(j) => f_taken[j].kind = "result"

\* if a3m_lines is not None: (...) = unserialize_msa(a3m_lines, ...), the
\* end of the first try (except Exception: continue); then the second try:
\* generate_input_feature(...), except Exception: continue
FgFeatures ==
    /\ f_pc = "features"
    /\ IF queries[f_job].a3m = "bad"
       THEN /\ F_Continue(f_job)
            /\ UNCHANGED f_reach
       ELSE /\ f_reach' = [f_reach EXCEPT ![f_job] = "features"]
            /\ \E ok \in BOOLEAN :
                IF ok /\ F_DataUsable(f_job)
                THEN /\ f_pc' = "fold_check"
                     /\ UNCHANGED <<f_job, f_fold>>
                ELSE F_Continue(f_job)
    /\ UNCHANGED <<fixed, files, registry, worker, f_slept, f_taken, mailbox>>

\* predict_structure: fold_id = get_fold_id(prefix), the membership test
FgFoldCheck ==
    /\ f_pc = "fold_check"
    /\ f_reach' = [f_reach EXCEPT ![f_job] = "predict"]
    /\ IF FoldKnown(global_fold_ids, JobName(f_job))
       THEN /\ f_fold' = global_fold_ids[JobName(f_job)]
            /\ fold_returned' = [fold_returned EXCEPT ![JobName(f_job)] =
                                    @ \cup {global_fold_ids[JobName(f_job)]}]
            /\ f_pc' = "predict"
       ELSE /\ f_pc' = "fold_write"
            /\ UNCHANGED <<f_fold, fold_returned>>
    /\ UNCHANGED <<fixed, files, global_fold_ids, next_uuid, worker, f_job,
                   f_slept, f_taken, mailbox>>

\* global_fold_ids[prefix] = str(uuid.uuid4())
FgFoldWrite ==
    /\ f_pc = "fold_write"
    /\ global_fold_ids' = Put(global_fold_ids, JobName(f_job), next_uuid)
    /\ next_uuid' = next_uuid + 1
    /\ f_pc' = "fold_ret"
    /\ UNCHANGED <<fixed, files, fold_returned, worker, f_job, f_fold,
                   f_slept, f_reach, f_taken, mailbox>>

\* return global_fold_ids[prefix]
FgFoldRet ==
    /\ f_pc = "fold_ret"
    /\ f_fold' = global_fold_ids[JobName(f_job)]
    /\ fold_returned' = [fold_returned EXCEPT ![JobName(f_job)] =
                            @ \cup {global_fold_ids[JobName(f_job)]}]
    /\ f_pc' = "predict"
    /\ UNCHANGED <<fixed, files, global_fold_ids, next_uuid, worker, f_job,
                   f_slept, f_reach, f_taken, mailbox>>

\* the exceptions the prediction try catches: `except RuntimeError`
PredictCaught(exc) == exc = "RuntimeError"

\* the rest of predict_structure and of the iteration: the models run and
\* the score/PDB files carry fold_id; then the plots, and the zip or the
\* done marker.  An exception is caught (continue) or leaves run().
FgPredict ==
    /\ f_pc = "predict"
    /\ \E outcome \in {"ok", "RuntimeError", "OSError"} :
        IF outcome = "ok"
        THEN /\ score_files' = Put(score_files, JobName(f_job), f_fold)
             /\ IF zip_results
                THEN /\ result_zips' = result_zips \cup {JobName(f_job)}
                     /\ UNCHANGED done_markers
                ELSE /\ done_markers' = done_markers \cup {JobName(f_job)}
                     /\ UNCHANGED result_zips
             /\ f_reach' = [f_reach EXCEPT ![f_job] = "saved"]
             /\ F_Continue(f_job)
        ELSE /\ IF PredictCaught(outcome)
                THEN F_Continue(f_job)
                ELSE /\ f_pc' = "raised"
                     /\ UNCHANGED <<f_job, f_fold>>
             /\ UNCHANGED <<score_files, result_zips, done_markers, f_reach>>
    /\ UNCHANGED <<fixed, a3m_files, registry, worker, f_slept, f_taken, mailbox>>

\* msa_bg_thread.join(); return
FgJoin ==
    /\ f_pc = "join"
    /\ w_pc = "done"
    /\ f_pc' = "returned"
    /\ UNCHANGED <<fixed, files, registry, worker, f_job, f_fold, f_slept,
                   f_reach, f_taken, mailbox>>

(* ---------------------------------------------------------------------- *)
(* Specification                                                           *)
(* ---------------------------------------------------------------------- *)

Next ==
    \/ WorkerLoop
    \/ WorkerAcquire
    \/ WorkerUnserialize
    \/ WorkerSerialize
    \/ WorkerFoldCheck
    \/ WorkerFoldWrite
    \/ WorkerFoldRet
    \/ WorkerWriteFile
    \/ FgLoop
    \/ FgSleep
    \/ FgWaitEnd
    \/ FgCheckNone
    \/ FgCheckError
    \/ FgPop
    \/ FgFeatures
    \/ FgFoldCheck
    \/ FgFoldWrite
    \/ FgFoldRet
    \/ FgPredict
    \/ FgJoin

Spec == Init /\ [][Next]_vars

(* ---------------------------------------------------------------------- *)
(* Properties of the prefetch scheduler                                    *)
(* ---------------------------------------------------------------------- *)

\* the stages in which the foreground works on a job after the MSA try
FgProcessed == {"features", "predict", "saved"}

\* the stages of a job the foreground leaves alone
FgUntouched == {"none", "skipped"}

\* C1: with no job skipped, every job's entry is stored under its name
\* exactly once: never a second time, and once by the time the worker has
\* gone through the list, also when a job's acquisition raised
C1_StoredExactlyOnce ==
    (\A j \in Jobs : w_reach[j] # "skipped") =>
        \A j \in Jobs :
            /\ stores[j] <= 1
            /\ w_pc = "done" => stores[j] = 1

\* C2: a job on which the worker raised has the sentinel stored, the worker
\* has gone on to the jobs after it, and the foreground skips the job
C2_FailureIsolated ==
    \A j \in w_failed :
        /\ w_job > j
        /\ stores[j] >= 1
        /\ w_pc = "done" => \A k \in Jobs : k > j => w_reach[k] # "none"
        /\ f_reach[j] \notin FgProcessed

\* C3: a step changes the mailbox only under the name of the job the acting
\* thread is at, and the entry the foreground takes for a job is the entry
\* held under that job's name, deposited under that name
C3_NoCrossNameInterference ==
    [][ /\ \A n \in Names :
            msa_data_store'[n] # msa_data_store[n] =>
                \/ /\ <<w_job, w_pc>>' # <<w_job, w_pc>>
                   /\ w_job \in Jobs /\ n = JobName(w_job)
                \/ /\ <<f_job, f_pc>>' # <<f_job, f_pc>>
                   /\ f_job \in Jobs /\ n = JobName(f_job)
        /\ \A j \in Jobs :
            f_taken'[j] # f_taken[j] =>
                /\ f_taken'[j] = msa_data_store[JobName(j)]
                /\ JobName(f_taken'[j].job) = JobName(j)
      ]_vars

\* C3 witness: results had accumulated under two names and the foreground
\* has taken both
C3_Witness ==
    /\ NumJobs >= 2
    /\ JobName(1) # JobName(2)
    /\ f_taken[1].kind = "result"
    /\ f_taken[2].kind = "result"
    /\ stores[2] >= 1

\* C4: once the foreground has taken a job's result, the mailbox holds no
\* entry of that job
C4_HandedOverOnce ==
    \A j \in Jobs :
        f_taken[j].kind = "result" => msa_data_store[JobName(j)].job # j

\* C5: the polling wait ends (the foreground is never left waiting for a
\* name that is not in the mailbox after the worker has exited), and run()
\* returns only after the worker has gone through the list and exited
C5_WaitEndsAndJoins ==
    /\ ~(w_pc = "done" /\ f_pc = "wait" /\ ~Has(msa_data_store, JobName(f_job)))
    /\ f_pc = "returned" => (w_pc = "done" /\ w_job > NumJobs)

\* C6: get_fold_id returns one id per prefix, so the id in <job>.a3m.xz is
\* the id in the job's score and PDB outputs
C6_OneFoldIdPerPrefix ==
    \A n \in Names :
        /\ Cardinality(fold_returned[n]) <= 1
        /\ (a3m_files[n] # 0 /\ score_files[n] # 0) => a3m_files[n] = score_files[n]

\* C7: entries are first stored in job order: when job j has been stored,
\* every earlier job the worker did not skip has been stored
C7_StoredInJobOrder ==
    \A i \in Jobs : \A j \in Jobs :
        (i < j /\ w_reach[i] # "skipped" /\ stores[j] > 0) => stores[i] > 0

\* C7 witness: two jobs, the first of which raised, both stored
C7_Witness ==
    /\ NumJobs >= 2
    /\ 1 \in w_failed
    /\ stores[1] > 0
    /\ stores[2] > 0

\* C8: a job whose done marker exists under keep_existing_results is left
\* alone by the worker (no acquisition, no entry) and by the foreground (no
\* wait, no feature assembly, no prediction)
C8_DoneMarkerSkips ==
    \A j \in Jobs :
        (keep_existing_results /\ JobName(j) \in pre_done) =>
            /\ w_reach[j] # "try"
            /\ j \notin w_acquired
            /\ stores[j] = 0
            /\ f_reach[j] \in FgUntouched

\* C8 witness: both threads have passed a job with a done marker while
\* another job was processed
C8_Witness ==
    \E j \in Jobs : \E k \in Jobs :
        /\ keep_existing_results /\ JobName(j) \in pre_done
        /\ w_reach[j] = "skipped" /\ f_reach[j] = "skipped"
        /\ f_reach[k] = "saved"

\* C9: a job whose result.zip exists under keep_existing_results is left
\* alone by the worker and by the foreground, as with a done marker
C9_ResultZipSkips ==
    \A j \in Jobs :
        (keep_existing_results /\ JobName(j) \in pre_zip) =>
            /\ w_reach[j] # "try"
            /\ j \notin w_acquired
            /\ stores[j] = 0
            /\ f_reach[j] \in FgUntouched

\* C10: no failure inside one job's processing leaves run(): the
\* foreground loop goes on to the next job
C10_NoJobFailureEscapes == f_pc # "raised"

\* the worker reads its job's entry back (line 2098) and stores the sentinel
WorkerReadFails ==
    /\ w_pc = "read"
    /\ w_job \in Jobs
    /\ stores'[w_job] = stores[w_job] + 1
    /\ msa_data_store'[JobName(w_job)] = ErrorEntry(w_job)

\* C26: the worker stores the error sentinel for a job only when the job's
\* own acquisition or encoding failed: a step in which the worker reads the
\* job's entry back and stores 'error' (so that <job>.a3m.xz is not written)
\* finds the entry it deposited still in the mailbox, whatever the
\* foreground has done in between
C26_ErrorOnlyOnOwnFailure ==
    [][ WorkerReadFails => Has(msa_data_store, JobName(w_job)) ]_vars

\* a job with an explicit alignment under use_templates: the worker stores
\* the entry of the search and then the entry decoded from the alignment
StoredTwice(j) == use_templates /\ queries[j].a3m = "good"

\* C27: the tuple the foreground uses for a job does not depend on the
\* interleaving: for a job whose entry the worker stores twice, the entry
\* the foreground takes is the one the worker leaves under the name, the
\* tuple decoded from the explicit alignment
C27_TakenTupleIsFixed ==
    \A j \in Jobs :
        (StoredTwice(j) /\ f_taken[j].kind = "result") =>
            f_taken[j].src = "a3m"

(* ====================================================================== *)
(* Text: a Python str is a sequence of one-character strings               *)
(* ====================================================================== *)

NL == "\n"
TAB == "\t"
GT == ">"
GAP == "-"

\* the characters on which str.islower() is true
Lower == {"a", "b", "c", "d", "e", "p", "u", "x"}

\* str(n) of one decimal digit
Digit == <<"0", "1", "2", "3", "4", "5", "6", "7", "8", "9">>

\* str(n) for n >= 0
RECURSIVE str(_)
str(n) == IF n < 10 THEN <<Digit[n + 1]>>
          ELSE str(n \div 10) \o <<Digit[(n % 10) + 1]>>

\* int(s) for a string of decimal digits
RECURSIVE int(_)
int(s) ==
    IF Len(s) = 0 THEN 0
    ELSE 10 * int(SubSeq(s, 1, Len(s) - 1))
         + ((CHOOSE d \in 1..10 : Digit[d] = s[Len(s)]) - 1)

\* s.startswith(c) for a one-character c
startswith(s, c) == Len(s) > 0 /\ s[1] = c

\* s.split(sep) for a one-character sep
RECURSIVE split(_, _)
split(s, sep) ==
    IF \A i \in DOMAIN s : s[i] # sep THEN <<s>>
    ELSE LET i == CHOOSE i \in DOMAIN s :
                      s[i] = sep /\ \A k \in 1..(i - 1) : s[k] # sep
         IN  <<SubSeq(s, 1, i - 1)>> \o split(SubSeq(s, i + 1, Len(s)), sep)

\* s.splitlines(): no last empty line after a final line break
splitlines(s) ==
    LET parts == split(s, NL)
    IN  IF parts[Len(parts)] = <<>> THEN SubSeq(parts, 1, Len(parts) - 1)
        ELSE parts

\* sep.join(list)
RECURSIVE join(_, _)
join(sep, list) ==
    IF Len(list) = 0 THEN <<>>
    ELSE IF Len(list) = 1 THEN list[1]
    ELSE list[1] \o sep \o join(sep, Tail(list))

\* s * n
RECURSIVE times(_, _)
times(s, n) == IF n <= 0 THEN <<>> ELSE s \o times(s, n - 1)

\* s.replace(old, new, 1) for a one-character old
replace_first(s, old, new) ==
    IF \A i \in DOMAIN s : s[i] # old THEN s
    ELSE LET i == CHOOSE i \in DOMAIN s :
                      s[i] = old /\ \A k \in 1..(i - 1) : s[k] # old
         IN  SubSeq(s, 1, i - 1) \o new \o SubSeq(s, i + 1, Len(s))

\* s.replace(old, "") for a one-character old
remove_all(s, old) == SelectSeq(s, LAMBDA c : c # old)

\* s[lo:hi] with 0 <= lo, and hi >= 0 or hi < 0 counted from the end
slice(s, lo, hi) ==
    LET stop == IF hi < 0 THEN Len(s) + hi
                ELSE IF hi > Len(s) THEN Len(s) ELSE hi
    IN  SubSeq(s, lo + 1, stop)

(* ====================================================================== *)
(* pair_sequences, pad_sequences, pair_msa                                 *)
(* ====================================================================== *)

\* a piece that leaves the cardinality out
pair_piece_once(line, n, query_cardinality) ==
    IF startswith(line, GT)
    THEN IF n # 1 THEN replace_first(line, GT, <<TAB>>) ELSE line
    ELSE line

\* what one line of chain n adds to its output line in pair_sequences
pair_piece(line, n, query_cardinality) ==
    IF startswith(line, GT)
    THEN IF n # 1 THEN replace_first(line, GT, <<TAB>>) ELSE line
    ELSE times(line, query_cardinality[n])

\* pair_sequences: more lines in a later chain than in the first one
pair_sequences_raises(a3m_lines, query_sequences) ==
    \E n \in DOMAIN query_sequences :
        \/ n > Len(a3m_lines)
        \/ Len(splitlines(a3m_lines[n])) > Len(splitlines(a3m_lines[1]))

\* the loop over the chains n.. of pair_sequences
RECURSIVE pair_from(_, _, _, _, _)
pair_from(n, a3m_line_paired, a3m_lines, query_sequences, query_cardinality) ==
    IF n > Len(query_sequences) THEN a3m_line_paired
    ELSE LET lines == splitlines(a3m_lines[n])
             next == [i \in DOMAIN a3m_line_paired |->
                        IF i <= Len(lines)
                        THEN a3m_line_paired[i]
                             \o pair_piece(lines[i], n, query_cardinality)
                        ELSE a3m_line_paired[i]]
         IN  pair_from(n + 1, next, a3m_lines, query_sequences,
                       query_cardinality)

pair_sequences(a3m_lines, query_sequences, query_cardinality) ==
    LET a3m_line_paired ==
            [i \in 1..Len(splitlines(a3m_lines[1])) |-> <<>>]
    IN  join(<<NL>>, pair_from(1, a3m_line_paired, a3m_lines,
                               query_sequences, query_cardinality))

\* the chain of each copy, chains expanded by cardinality
RECURSIVE copies(_, _)
copies(n, query_cardinality) ==
    IF n > Len(query_cardinality) THEN <<>>
    ELSE [j \in 1..query_cardinality[n] |-> n]
         \o copies(n + 1, query_cardinality)

\* _blank_seq of pad_sequences
blank_seq(query_sequences, query_cardinality) ==
    LET of == copies(1, query_cardinality)
    IN  [p \in DOMAIN of |-> times(<<GAP>>, Len(query_sequences[of[p]]))]

\* "".join(list)
RECURSIVE concat(_)
concat(list) == IF Len(list) = 0 THEN <<>> ELSE list[1] \o concat(Tail(list))

\* a padding that keeps the blank of the copy's own position
pad_copy_keep(a3m, pos, blank) ==
    LET lines == SelectSeq(split(a3m, NL), LAMBDA l : Len(l) # 0)
    IN  [i \in DOMAIN lines |->
            IF startswith(lines[i], GT) THEN lines[i]
            ELSE concat(SubSeq(blank, 1, pos - 1)) \o lines[i]
                 \o concat(SubSeq(blank, pos, Len(blank)))]

\* the lines pad_sequences appends for the copy at position pos (from 1)
pad_copy(a3m, pos, blank) ==
    LET lines == SelectSeq(split(a3m, NL), LAMBDA l : Len(l) # 0)
    IN  [i \in DOMAIN lines |->
            IF startswith(lines[i], GT) THEN lines[i]
            ELSE concat(SubSeq(blank, 1, pos - 1)) \o lines[i]
                 \o concat(SubSeq(blank, pos + 1, Len(blank)))]

\* the loop over the copies pos.. of pad_sequences
RECURSIVE pad_from(_, _, _, _)
pad_from(pos, of, a3m_lines, blank) ==
    IF pos > Len(of) THEN <<>>
    ELSE pad_copy(a3m_lines[of[pos]], pos, blank)
         \o pad_from(pos + 1, of, a3m_lines, blank)

pad_sequences(a3m_lines, query_sequences, query_cardinality) ==
    join(<<NL>>, pad_from(1, copies(1, query_cardinality), a3m_lines,
                          blank_seq(query_sequences, query_cardinality)))

\* pair_msa raises ValueError("Invalid pairing")
pair_msa_raises(paired_msa, unpaired_msa) ==
    ~paired_msa.some /\ ~unpaired_msa.some

\* a combination that puts the padded rows first
pair_msa_padded_first(query_seqs_unique, query_seqs_cardinality, paired_msa, unpaired_msa) ==
    IF ~paired_msa.some /\ unpaired_msa.some
    THEN pad_sequences(unpaired_msa.v, query_seqs_unique,
                       query_seqs_cardinality)
    ELSE IF paired_msa.some /\ unpaired_msa.some
    THEN pad_sequences(unpaired_msa.v, query_seqs_unique,
                       query_seqs_cardinality)
         \o <<NL>>
         \o pair_sequences(paired_msa.v, query_seqs_unique,
                           query_seqs_cardinality)
    ELSE pair_sequences(paired_msa.v, query_seqs_unique,
                        query_seqs_cardinality)

pair_msa(query_seqs_unique, query_seqs_cardinality, paired_msa, unpaired_msa) ==
    IF ~paired_msa.some /\ unpaired_msa.some
    THEN pad_sequences(unpaired_msa.v, query_seqs_unique,
                       query_seqs_cardinality)
    ELSE IF paired_msa.some /\ unpaired_msa.some
    THEN pair_sequences(paired_msa.v, query_seqs_unique,
                        query_seqs_cardinality)
         \o <<NL>>
         \o pad_sequences(unpaired_msa.v, query_seqs_unique,
                          query_seqs_cardinality)
    ELSE pair_sequences(paired_msa.v, query_seqs_unique,
                        query_seqs_cardinality)

(* ====================================================================== *)
(* The compact text of one job: msa_to_str and unserialize_msa             *)
(* ====================================================================== *)

\* ",".join(map(str, numbers))
join_numbers(numbers) ==
    join(<<",">>, [i \in DOMAIN numbers |-> str(numbers[i])])

\* list(map(int, field.split(",")))
split_numbers(field) ==
    LET parts == split(field, ",") IN [i \in DOMAIN parts |-> int(parts[i])]

msa_to_str(unpaired_msa, paired_msa, query_seqs_unique, query_seqs_cardinality) ==
    <<"#">>
    \o join_numbers([i \in DOMAIN query_seqs_unique |->
                        Len(query_seqs_unique[i])])
    \o <<TAB>>
    \o join_numbers(query_seqs_cardinality) \o <<NL>>
    \o pair_msa(query_seqs_unique,
                [i \in DOMAIN query_seqs_cardinality |-> 1],
                paired_msa, unpaired_msa)

\* the line fetch_msas_in_background appends before it writes
\* <name>.a3m.xz: a line break, then one header-like line (its name is cut
\* short here; fold id and time hold no tab and no line break)
MetadataLine == <<NL, GT>> \o <<"N", "O", "N", "_", "M", "S", "A">>

\* the inner `for pos in range(prev_pos, len(seq))` of unserialize_msa from
\* pos on (pos counts the characters before it): the segment, whether it
\* holds a residue, and prev_pos after the loop
RECURSIVE scan(_, _, _, _, _, _, _)
scan(seq, pos, query_len, curr_seq_len, paired_seq, has, prev_pos) ==
    IF pos >= Len(seq)
    THEN [seg |-> paired_seq, has |-> has, prev_pos |-> prev_pos]
    ELSE IF curr_seq_len = query_len
    THEN [seg |-> paired_seq, has |-> has, prev_pos |-> pos]
    ELSE LET c == seq[pos + 1]
         IN  IF c \in Lower
             THEN scan(seq, pos + 1, query_len, curr_seq_len,
                       Append(paired_seq, c), has, prev_pos)
             ELSE scan(seq, pos + 1, query_len, curr_seq_len + 1,
                       Append(paired_seq, c), has \/ c # GAP, prev_pos)

\* the `for n, query_len in enumerate(query_seq_len)` of one row from chain
\* n on: seqs_line and has_amino_acid
RECURSIVE segments(_, _, _, _)
segments(seq, query_seq_len, n, prev_pos) ==
    IF n > Len(query_seq_len) THEN <<>>
    ELSE LET r == scan(seq, prev_pos, query_seq_len[n], 0, <<>>, FALSE,
                       prev_pos)
         IN  <<[seg |-> r.seg, has |-> r.has]>>
             \o segments(seq, query_seq_len, n + 1, r.prev_pos)

\* sum(has_amino_acid) == len(query_seq_len) with one segment enough
row_is_paired_any(segs) == \E j \in DOMAIN segs : segs[j].has

\* sum(has_amino_acid) == len(query_seq_len)
row_is_paired(segs) == \A j \in DOMAIN segs : segs[j].has

\* a key test of already_in that never finds the key
seen_never(already_in, header, seq) == FALSE

\* (header, seq) in already_in
seen(already_in, header, seq) == <<header, seq>> \in already_in

\* the result tuple of unserialize_msa, or the exception it raised
Decoded(unpaired_msa, paired_msa, query_seqs_unique, query_seqs_cardinality) ==
    [exc |-> "no", unpaired |-> unpaired_msa, paired |-> paired_msa,
     seqs |-> query_seqs_unique, cards |-> query_seqs_cardinality]
Raised(exc) ==
    [exc |-> exc, unpaired |-> <<>>, paired |-> None, seqs |-> <<>>,
     cards |-> <<>>]

\* the body of `for i in range(1, len(a3m_lines), 2)` for one record: the
\* buckets after it
add_record(header, seq, query_seq_len, plain, buckets) ==
    LET segs == segments(seq, query_seq_len, 1, 0)
        fields == split(remove_all(header, GT), TAB)
    IN  IF ~plain /\ row_is_paired(segs)
        THEN IF Len(fields) < Len(segs)
             THEN [buckets EXCEPT !.exc = "IndexError"]
             ELSE [buckets EXCEPT !.paired =
                     [j \in DOMAIN segs |->
                         buckets.paired[j] \o <<GT>> \o fields[j] \o <<NL>>
                         \o segs[j].seg \o <<NL>>]]
        ELSE [buckets EXCEPT !.unpaired =
                 [j \in DOMAIN segs |->
                     IF segs[j].has
                     THEN buckets.unpaired[j] \o header \o <<NL>>
                          \o segs[j].seg \o <<NL>>
                     ELSE buckets.unpaired[j]]]

\* `for i in range(1, len(a3m_lines), 2)` from index i on (i counts from 0)
RECURSIVE records(_, _, _, _, _, _)
records(a3m_lines, i, query_seq_len, plain, already_in, buckets) ==
    IF buckets.exc # "no" \/ i >= Len(a3m_lines) THEN buckets
    ELSE IF i + 1 >= Len(a3m_lines)
    THEN [buckets EXCEPT !.exc = "IndexError"]
    ELSE LET header == a3m_lines[i + 1]
             seq == a3m_lines[i + 2]
         IN  IF seen(already_in, header, seq)
             THEN records(a3m_lines, i + 2, query_seq_len, plain,
                          already_in, buckets)
             ELSE records(a3m_lines, i + 2, query_seq_len, plain,
                          already_in \cup {<<header, seq>>},
                          add_record(header, seq, query_seq_len, plain,
                                     buckets))

\* query_seqs_unique: the first row cut at the declared lengths
RECURSIVE first_row_cut(_, _, _, _)
first_row_cut(row, query_seq_len, n, prev_query_start) ==
    IF n > Len(query_seq_len) THEN <<>>
    ELSE <<slice(row, prev_query_start,
                 prev_query_start + query_seq_len[n])>>
         \o first_row_cut(row, query_seq_len, n + 1,
                          prev_query_start + query_seq_len[n])

unserialize_msa(text, query_sequence) ==
    LET a3m_lines == splitlines(text)
    IN  IF Len(a3m_lines) = 0 THEN Raised("IndexError")
        ELSE IF \/ ~startswith(a3m_lines[1], "#")
                \/ Len(split(Tail(a3m_lines[1]), TAB)) # 2
        THEN Decoded(<<join(<<NL>>, a3m_lines)>>, None, <<query_sequence>>,
                     <<1>>)
        ELSE IF Len(a3m_lines) < 3 THEN Raised("ValueError")
        ELSE
        LET tab_sep_entries == split(Tail(a3m_lines[1]), TAB)
            query_seq_len == split_numbers(tab_sep_entries[1])
            query_seqs_cardinality == split_numbers(tab_sep_entries[2])
            is_homooligomer ==
                Len(query_seq_len) = 1 /\ query_seqs_cardinality[1] > 1
            is_single_protein ==
                Len(query_seq_len) = 1 /\ query_seqs_cardinality[1] = 1
            query_seqs_unique ==
                first_row_cut(a3m_lines[3], query_seq_len, 1, 0)
            empty == [j \in DOMAIN query_seq_len |-> <<>>]
            buckets == records(a3m_lines, 1, query_seq_len,
                               is_single_protein \/ is_homooligomer, {},
                               [exc |-> "no", paired |-> empty,
                                unpaired |-> empty])
            paired_msa ==
                IF is_homooligomer
                THEN Some([i \in 1..query_seqs_cardinality[1] |->
                            <<GT>> \o str(101 + i - 1) \o <<NL>>
                            \o query_seqs_unique[1] \o <<NL>>])
                ELSE IF is_single_protein THEN None
                ELSE Some(buckets.paired)
        IN  IF buckets.exc # "no" THEN Raised(buckets.exc)
            ELSE Decoded(buckets.unpaired, paired_msa, query_seqs_unique,
                         query_seqs_cardinality)

(* ====================================================================== *)
(* MsaSpec: the text functions applied to the alignment data of one job    *)
(* ====================================================================== *)

\* header lines: the query of chain 1 and 2, an unpaired hit of chain 1
\* and 2, a paired hit of chain 1 and 2
H101 == <<GT, "1", "0", "1">>
H102 == <<GT, "1", "0", "2">>
HU1 == <<GT, "u", "1">>
HU2 == <<GT, "u", "2">>
HP1 == <<GT, "p", "1">>
HP2 == <<GT, "p", "2">>

\* the two unique query sequences
Seq1 == <<"A", "C">>
Seq2 == <<"D">>

\* one record of an a3m text
rec(header, row) == header \o <<NL>> \o row \o <<NL>>

\* rows a search aligns to chain 1 and to chain 2 (lower case: inserts)
Hits1 == {<<"A", "-">>, <<"A", "-", "a">>}
Hits2 == {<<"D">>, <<"d", "D">>}

\* rows of the paired search for chain 1 and chain 2; a region crop with
\* drop_empty = False leaves rows of gaps in them
PairedHits1 == {<<"A", "-">>, <<"-", "-">>}
PairedHits2 == {<<"D">>, <<"-">>}

\* the unpaired a3m of a chain: the query, then at most MaxHits hits
MaxHits == 1
UnpairedOf(h, s, hh, hits) ==
    {rec(h, s) \o concat([i \in DOMAIN l |-> rec(hh, l[i])]) :
        l \in UNION {[1..n -> hits] : n \in 0..MaxHits}}

\* the paired a3m of the two chains: the same number of rows in both
PairedBlocks ==
    {<<rec(H101, Seq1), rec(H102, Seq2)>>}
    \cup {<<rec(H101, Seq1) \o rec(HP1, r1), rec(H102, Seq2) \o rec(HP2, r2)>> :
            r1 \in PairedHits1, r2 \in PairedHits2}

\* the largest cardinality of a chain
MaxCard == 2

\* a single protein, a homo-oligomer and the hetero-complexes, as
\* get_msa_and_templates_v3 returns them
JobInputs ==
    {[unpaired |-> Some(<<u>>), paired |-> None, seqs |-> <<Seq1>>,
      cards |-> <<1>>] : u \in UnpairedOf(H101, Seq1, HU1, Hits1)}
    \cup
    {[unpaired |-> Some(<<u>>),
      paired |-> Some([i \in 1..c |->
                          rec(<<GT>> \o str(101 + i - 1), Seq1)]),
      seqs |-> <<Seq1>>, cards |-> <<c>>] :
        u \in UnpairedOf(H101, Seq1, HU1, Hits1), c \in 2..MaxCard}
    \cup
    {[unpaired |-> u, paired |-> p, seqs |-> <<Seq1, Seq2>>,
      cards |-> <<c, 1>>] :
        u \in {None} \cup {Some(<<u1, u2>>) :
                              u1 \in UnpairedOf(H101, Seq1, HU1, Hits1),
                              u2 \in UnpairedOf(H102, Seq2, HU2, Hits2)},
        p \in {None} \cup {Some(b) : b \in PairedBlocks},
        c \in 1..MaxCard}

\* the first lines an a3m file written for two chains, for one chain and
\* for a homo-oligomer starts with
HeaderHetero == <<"#", "2", ",", "1", TAB, "1", ",", "1">>
HeaderSingle == <<"#", "2", TAB, "1">>
HeaderHomo == <<"#", "2", TAB, "2">>

\* records of a two-chain file and of a one-chain file: <<header, row>>
HeteroRecords ==
    {<<H101 \o <<TAB>> \o Tail(H102), <<"A", "C", "D">>>>,
     <<HP1 \o <<TAB>> \o Tail(HP2), <<"A", "-", "D">>>>,
     <<HP1 \o <<TAB>> \o Tail(HP2), <<"-", "-", "D">>>>,
     <<HU1, <<"A", "-", "-">>>>,
     <<HU1, <<"A", "-", "a", "-">>>>,
     <<HU2, <<"-", "-", "-">>>>}
SingleRecords ==
    {<<H101, Seq1>>, <<HU1, <<"A", "-">>>>, <<HU1, <<"-", "-">>>>}

\* the most records of a file read as input
MaxRecords == 3

\* the text of a first line and a list of records
FileText(first, recs) ==
    join(<<NL>>, <<first>> \o concat([i \in DOMAIN recs |->
                                         <<recs[i][1], recs[i][2]>>]))

RecordLists(recs) == UNION {[1..n -> recs] : n \in 1..MaxRecords}

\* the a3m files get_queries may hand over as a3m_lines: files in the
\* compact format and a plain a3m
A3mFiles ==
    {FileText(HeaderHetero, l) : l \in RecordLists(HeteroRecords)}
    \cup {FileText(h, l) : h \in {HeaderSingle, HeaderHomo},
                           l \in RecordLists(SingleRecords)}
    \cup {rec(H101, Seq1) \o rec(HU1, r) : r \in Hits1}

\* run() before its first step, for one fixed job list
RunIdle ==
    /\ queries = [j \in Jobs |-> [name |-> "A", a3m |-> "none"]]
    /\ use_templates = FALSE
    /\ keep_existing_results = FALSE
    /\ zip_results = FALSE
    /\ done_markers = {} /\ result_zips = {}
    /\ pre_done = {} /\ pre_zip = {}
    /\ msa_data_store = [n \in Names |-> Absent]
    /\ global_fold_ids = [n \in Names |-> 0]
    /\ next_uuid = 1
    /\ a3m_files = [n \in Names |-> 0]
    /\ score_files = [n \in Names |-> 0]
    /\ w_job = 1 /\ w_pc = "loop" /\ w_fold = 0
    /\ f_job = 1 /\ f_pc = "loop" /\ f_fold = 0
    /\ f_slept = FALSE
    /\ stores = [j \in Jobs |-> 0]
    /\ w_reach = [j \in Jobs |-> "none"]
    /\ w_acquired = {}
    /\ w_failed = {}
    /\ f_reach = [j \in Jobs |-> "none"]
    /\ f_taken = [j \in Jobs |-> Absent]
    /\ fold_returned = [n \in Names |-> {}]

MsaInit ==
    /\ RunIdle /\ CropIdle /\ StoreIdle /\ AcqIdle
    /\ decoded = NotDecoded
    /\ input_feature = NotBuilt
    /\ \/ job \in JobInputs /\ msa = <<>> /\ msa_from = "job"
       \/ job = NoJob /\ msa \in A3mFiles /\ msa_from = "read"

\* generate_input_feature's and msa_to_str's calls of the three functions
CallPairSequences ==
    /\ msa_from = "job" /\ job.paired.some
    /\ ~pair_sequences_raises(job.paired.v, job.seqs)
    /\ msa' = pair_sequences(job.paired.v, job.seqs, job.cards)
    /\ msa_from' = "pair_sequences"
    /\ UNCHANGED <<runstate, acquisition, cropper, cache, job, decoded,
                   input_feature>>

CallPadSequences ==
    /\ msa_from = "job" /\ job.unpaired.some
    /\ msa' = pad_sequences(job.unpaired.v, job.seqs, job.cards)
    /\ msa_from' = "pad_sequences"
    /\ UNCHANGED <<runstate, acquisition, cropper, cache, job, decoded,
                   input_feature>>

CallPairMsa ==
    /\ msa_from = "job"
    /\ IF pair_msa_raises(job.paired, job.unpaired)
       THEN msa' = <<>> /\ msa_from' = "pair_msa ValueError"
       ELSE /\ msa' = pair_msa(job.seqs, job.cards, job.paired, job.unpaired)
            /\ msa_from' = "pair_msa"
    /\ UNCHANGED <<runstate, acquisition, cropper, cache, job, decoded,
                   input_feature>>

\* fetch_msas_in_background: msa = msa_to_str(...)
CallMsaToStr ==
    /\ msa_from = "job"
    /\ IF pair_msa_raises(job.paired, job.unpaired)
       THEN msa' = <<>> /\ msa_from' = "msa_to_str ValueError"
       ELSE /\ msa' = msa_to_str(job.unpaired, job.paired, job.seqs,
                                 job.cards)
            /\ msa_from' = "msa_to_str"
    /\ UNCHANGED <<runstate, acquisition, cropper, cache, job, decoded,
                   input_feature>>

\* fetch_msas_in_background: the metadata line is added and the text is
\* written to <jobname>.a3m.xz
WriteA3mFile ==
    /\ msa_from = "msa_to_str"
    /\ decoded = NotDecoded
    /\ msa' = msa \o MetadataLine
    /\ msa_from' = "file"
    /\ UNCHANGED <<runstate, acquisition, cropper, cache, job, decoded,
                   input_feature>>

\* get_queries: query_sequence is the first sequence of the file
first_sequence(text) ==
    LET lines == splitlines(text)
        i == CHOOSE i \in DOMAIN lines :
                 startswith(lines[i], GT)
                 /\ \A k \in 1..(i - 1) : ~startswith(lines[k], GT)
    IN  lines[i + 1]

\* unserialize_msa(a3m_lines, query_sequence)
CallUnserialize ==
    /\ msa_from \in {"msa_to_str", "file", "read"}
    /\ decoded = NotDecoded
    /\ decoded' = unserialize_msa(msa, first_sequence(msa))
    /\ UNCHANGED <<runstate, acquisition, cropper, cache, job, msa,
                   msa_from, input_feature>>

\* the chain copies from sequence_index on: each unique sequence as often
\* as its cardinality says (the two loops of lines 1691-1694)
RECURSIVE chain_copies(_, _, _)
chain_copies_once(query_seqs_unique, query_seqs_cardinality, sequence_index) ==
    [s \in DOMAIN query_seqs_unique |-> query_seqs_unique[s]]

chain_copies(query_seqs_unique, query_seqs_cardinality, sequence_index) ==
    IF sequence_index > Len(query_seqs_unique) THEN <<>>
    ELSE [c \in 1..query_seqs_cardinality[sequence_index] |->
              query_seqs_unique[sequence_index]]
         \o chain_copies(query_seqs_unique, query_seqs_cardinality,
                         sequence_index + 1)

\* np.arange(L) and np.full(L, n)
arange(L) == [k \in 1..L |-> k - 1]
full(L, n) == [k \in 1..L |-> n]

\* what generate_input_feature returned: the fields of input_feature the
\* function itself sets, or the exception it raised
Feature(path, seqs, cards, sequence, a3m_lines, residue_index, asym_id) ==
    [exc |-> "no", path |-> path, seqs |-> seqs, cards |-> cards,
     sequence |-> sequence, a3m_lines |-> a3m_lines,
     residue_index |-> residue_index, asym_id |-> asym_id]
NoFeatureBuilt(exc, path, seqs, cards) ==
    [exc |-> exc, path |-> path, seqs |-> seqs, cards |-> cards,
     sequence |-> <<>>, a3m_lines |-> <<>>, residue_index |-> <<>>,
     asym_id |-> <<>>]

\* the branch `if is_complex and "multimer" not in model_type`
complex_feature(query_seqs_unique, query_seqs_cardinality, unpaired_msa, paired_msa) ==
    LET chains == chain_copies(query_seqs_unique, query_seqs_cardinality, 1)
        full_sequence == concat(chains)
    IN  IF pair_msa_raises(paired_msa, unpaired_msa)
        THEN NoFeatureBuilt("ValueError", "complex", query_seqs_unique,
                            query_seqs_cardinality)
        ELSE IF paired_msa.some
                /\ pair_sequences_raises(paired_msa.v, query_seqs_unique)
        THEN NoFeatureBuilt("IndexError", "complex", query_seqs_unique,
                            query_seqs_cardinality)
        ELSE Feature("complex", query_seqs_unique, query_seqs_cardinality,
                     full_sequence,
                     <<GT, "0", NL>> \o full_sequence \o <<NL>>
                     \o pair_msa(query_seqs_unique, query_seqs_cardinality,
                                 paired_msa, unpaired_msa),
                     concat([n \in DOMAIN chains |-> arange(Len(chains[n]))]),
                     concat([n \in DOMAIN chains |->
                                full(Len(chains[n]), n - 1)]))

\* the else branch for a model type without "multimer": the features of
\* the first chain, asym_id all zero
monomer_feature(query_seqs_unique, query_seqs_cardinality, unpaired_msa) ==
    IF unpaired_msa.some /\ Len(unpaired_msa.v) = 0
    THEN NoFeatureBuilt("IndexError", "monomer", query_seqs_unique,
                        query_seqs_cardinality)
    ELSE Feature("monomer", query_seqs_unique, query_seqs_cardinality,
                 query_seqs_unique[1],
                 IF unpaired_msa.some THEN unpaired_msa.v[1]
                 ELSE <<GT>> \o str(101) \o <<NL>> \o query_seqs_unique[1],
                 arange(Len(query_seqs_unique[1])),
                 full(Len(query_seqs_unique[1]), 0))

\* generate_input_feature(...) for a model type without "multimer"
generate_input_feature(query_seqs_unique, query_seqs_cardinality, unpaired_msa, paired_msa, is_complex) ==
    IF is_complex
    THEN complex_feature(query_seqs_unique, query_seqs_cardinality,
                         unpaired_msa, paired_msa)
    ELSE monomer_feature(query_seqs_unique, query_seqs_cardinality,
                         unpaired_msa)

\* run(): generate_input_feature on the tuple taken from the mailbox
FeaturesOfJob ==
    /\ msa_from = "job"
    /\ input_feature = NotBuilt
    /\ \E is_complex \in BOOLEAN :
         input_feature' = generate_input_feature(job.seqs, job.cards,
                              job.unpaired, job.paired, is_complex)
    /\ UNCHANGED <<runstate, acquisition, cropper, cache, job, msa,
                   msa_from, decoded>>

\* run(): generate_input_feature on the tuple unserialize_msa returned
FeaturesOfDecoded ==
    /\ decoded.exc = "no"
    /\ input_feature = NotBuilt
    /\ \E is_complex \in BOOLEAN :
         input_feature' = generate_input_feature(decoded.seqs, decoded.cards,
                              Some(decoded.unpaired), decoded.paired,
                              is_complex)
    /\ UNCHANGED <<runstate, acquisition, cropper, cache, job, msa,
                   msa_from, decoded>>

MsaNext ==
    \/ CallPairSequences
    \/ CallPadSequences
    \/ CallPairMsa
    \/ CallMsaToStr
    \/ WriteA3mFile
    \/ CallUnserialize
    \/ FeaturesOfJob
    \/ FeaturesOfDecoded

MsaSpec == MsaInit /\ [][MsaNext]_vars

(* ====================================================================== *)
(* Properties of the text functions (MsaSpec)                              *)
(* ====================================================================== *)

\* the records of an a3m text: <<header line, row line>> in file order
RowsOf(a3m) ==
    LET lines == SelectSeq(split(a3m, NL), LAMBDA l : Len(l) # 0)
    IN  [i \in 1..(Len(lines) \div 2) |-> <<lines[2 * i - 1], lines[2 * i]>>]

RowSet(a3m) == {RowsOf(a3m)[i] : i \in DOMAIN RowsOf(a3m)}

\* the records of a list without the repeats of an earlier record
RECURSIVE DistinctRows(_)
DistinctRows(recs) ==
    IF Len(recs) = 0 THEN <<>>
    ELSE LET front == SubSeq(recs, 1, Len(recs) - 1)
             last == recs[Len(recs)]
         IN  IF \E k \in DOMAIN front : front[k] = last
             THEN DistinctRows(front)
             ELSE Append(DistinctRows(front), last)

\* lens[1] + ... + lens[n]
RECURSIVE SumTo(_, _)
SumTo(lens, n) == IF n = 0 THEN 0 ELSE SumTo(lens, n - 1) + lens[n]

\* the match-state columns of a row: the row without its inserts
MatchColumns(row) == SelectSeq(row, LAMBDA c : c \notin Lower)

\* chain segment j of a row, cut at the declared lengths, holds a residue
HoldsResidue(row, lens, j) ==
    \E k \in (SumTo(lens, j - 1) + 1)..SumTo(lens, j) :
        k <= Len(MatchColumns(row)) /\ MatchColumns(row)[k] # GAP

\* a job as the searches deliver it: every row of the paired blocks holds a
\* residue of its chain
ValidJob(j) ==
    j.paired.some =>
        \A n \in DOMAIN j.paired.v :
            \A r \in RowSet(j.paired.v[n]) :
                \E k \in DOMAIN r[2] : r[2][k] # GAP

\* the rows a list of per-chain texts holds for chain n (none for None)
RowSetOf(blocks, n) ==
    IF blocks.some /\ n \in DOMAIN blocks.v THEN RowSet(blocks.v[n]) ELSE {}

\* C11: for every valid job (single protein, homo-oligomer, hetero-complex
\* with paired rows, unpaired rows or both) unserialize_msa(msa_to_str(job))
\* succeeds, gives per chain the rows of the job's unpaired text as unpaired
\* and the rows of its paired text as paired, and returns the job's unique
\* sequences and cardinalities.
C11_RoundTrip ==
    (msa_from = "msa_to_str" /\ decoded.exc # "not called" /\ ValidJob(job))
    => /\ decoded.exc = "no"
       /\ decoded.seqs = job.seqs
       /\ decoded.cards = job.cards
       /\ \A n \in DOMAIN job.seqs :
            RowSet(decoded.unpaired[n]) = RowSetOf(job.unpaired, n)
       /\ \A n \in DOMAIN decoded.paired.v :
            RowSet(decoded.paired.v[n]) = RowSetOf(job.paired, n)

\* C12: unserialize_msa puts a body row into the paired buckets if and only
\* if every chain segment of it, cut at the declared lengths, holds a
\* residue and the header declares more than one chain; every other row
\* goes, segment by segment, to the unpaired bucket of each chain whose
\* segment holds a residue, and to no bucket for the other chains.
C12_PairedIffAllSegments ==
    (decoded.exc = "no" /\ startswith(msa, "#"))
    => LET lines == splitlines(msa)
           lens == split_numbers(split(Tail(lines[1]), TAB)[1])
           multi == Len(lens) > 1
           rows == DistinctRows(RowsOf(join(<<NL>>, Tail(lines))))
           all(r) == \A j \in DOMAIN lens : HoldsResidue(r[2], lens, j)
           pairedRows == SelectSeq(rows, LAMBDA r : multi /\ all(r))
           rest == SelectSeq(rows, LAMBDA r : ~(multi /\ all(r)))
           cut(r, j) == SubSeq(MatchColumns(r[2]), SumTo(lens, j - 1) + 1,
                               SumTo(lens, j))
       IN  \A j \in DOMAIN lens :
             LET mine == SelectSeq(rest,
                                   LAMBDA r : HoldsResidue(r[2], lens, j))
                 got == RowsOf(decoded.unpaired[j])
             IN  /\ Len(got) = Len(mine)
                 /\ \A i \in DOMAIN got :
                        /\ got[i][1] = mine[i][1]
                        /\ MatchColumns(got[i][2]) = cut(mine[i], j)
                 /\ multi =>
                      LET pgot == RowsOf(decoded.paired.v[j])
                      IN  /\ Len(pgot) = Len(pairedRows)
                          /\ \A i \in DOMAIN pgot :
                                /\ pgot[i][1] =
                                     <<GT>> \o split(remove_all(
                                         pairedRows[i][1], GT), TAB)[j]
                                /\ MatchColumns(pgot[i][2])
                                     = cut(pairedRows[i], j)

\* a two-chain text was decoded into a paired row and an unpaired row, and
\* a segment of gaps was left out
C12_Witness ==
    /\ decoded.exc = "no" /\ startswith(msa, "#")
    /\ Len(decoded.seqs) = 2
    /\ decoded.paired.v[1] # <<>>
    /\ decoded.unpaired[1] # <<>>
    /\ decoded.unpaired[2] = <<>>

\* C13: decoding the text of <jobname>.a3m.xz as the worker writes it
\* (the msa_to_str text, then the metadata line) succeeds and returns what
\* decoding the msa_to_str text alone returns.
C13_MetadataLineIgnored ==
    (msa_from = "file" /\ decoded.exc # "not called")
    => /\ decoded.exc = "no"
       /\ decoded = unserialize_msa(
                        msa_to_str(job.unpaired, job.paired, job.seqs,
                                   job.cards), job.seqs[1])

\* the compact text with every record that repeats an earlier one removed
RemoveRepeats(text) ==
    LET lines == splitlines(text)
        recs == DistinctRows(RowsOf(join(<<NL>>, Tail(lines))))
    IN  FileText(lines[1], recs)

\* C14: a record (header, full row) that repeats an earlier record of the
\* compact text adds nothing: decoding the text gives the buckets, unique
\* sequences and cardinalities that decoding it without the repeats gives.
C14_RepeatsAddNothing ==
    (decoded.exc = "no" /\ startswith(msa, "#"))
    => decoded = unserialize_msa(RemoveRepeats(msa), first_sequence(msa))

\* a text holding a record twice was decoded
C14_Witness ==
    /\ decoded.exc = "no" /\ startswith(msa, "#")
    /\ RemoveRepeats(msa) # msa
    /\ \E j \in DOMAIN decoded.unpaired : decoded.unpaired[j] # <<>>

\* C15: for blocks that all have the same number of lines pair_sequences
\* returns that number of lines, and each residue line is, chain after
\* chain, the chain's line repeated by the chain's cardinality; its width is
\* the sum over the chains of the line's width times the cardinality.
C15_PairedRowsAndWidth ==
    msa_from = "pair_sequences"
    => LET blocks == [n \in DOMAIN job.seqs |-> splitlines(job.paired.v[n])]
           out == split(msa, NL)
       IN  /\ Len(out) = Len(blocks[1])
           /\ \A i \in DOMAIN out :
                ~startswith(out[i], GT) =>
                  /\ out[i] = concat([n \in DOMAIN blocks |->
                                 times(blocks[n][i], job.cards[n])])
                  /\ Len(out[i]) =
                       SumTo([n \in DOMAIN blocks |->
                                 Len(blocks[n][i]) * job.cards[n]],
                             Len(blocks))

\* two chains, the first one twice, were paired over a hit row
C15_Witness ==
    /\ msa_from = "pair_sequences"
    /\ Len(job.seqs) = 2 /\ job.cards[1] = 2
    /\ Len(split(msa, NL)) = 4

\* C16: every residue line pad_sequences returns is, copy after copy of the
\* chains expanded by cardinality, one row of the unpaired text of one
\* copy's chain and, for every other copy, as many '-' as that copy's chain
\* is long.
C16_PaddedRowsBlockDiagonal ==
    msa_from = "pad_sequences"
    => LET of == copies(1, job.cards)
           out == split(msa, NL)
       IN  \A i \in DOMAIN out :
             ~startswith(out[i], GT) =>
               \E pos \in DOMAIN of :
                 \E r \in RowSet(job.unpaired.v[of[pos]]) :
                   out[i] = concat([k \in DOMAIN of |->
                               IF k = pos THEN r[2]
                               ELSE times(<<GAP>>, Len(job.seqs[of[k]]))])

\* two chains, the first one twice, were padded
C16_Witness ==
    /\ msa_from = "pad_sequences"
    /\ Len(copies(1, job.cards)) = 3
    /\ Len(split(msa, NL)) >= 8

\* C17: pair_msa returns the lines of pad_sequences when only unpaired data
\* is given, the lines of pair_sequences when only paired data is given, the
\* lines of pair_sequences followed by those of pad_sequences when both are
\* given, and raises when neither is given.
C17_CombinationPolicy ==
    /\ msa_from = "pair_msa"
       => /\ job.paired.some \/ job.unpaired.some
          /\ splitlines(msa) =
               (IF job.paired.some
                THEN splitlines(pair_sequences(job.paired.v, job.seqs,
                                               job.cards))
                ELSE <<>>)
               \o (IF job.unpaired.some
                   THEN splitlines(pad_sequences(job.unpaired.v, job.seqs,
                                                 job.cards))
                   ELSE <<>>)
    /\ msa_from = "pair_msa ValueError"
       => ~job.paired.some /\ ~job.unpaired.some

\* pair_msa was given both paired and unpaired data of two chains
C17_Witness ==
    /\ msa_from = "pair_msa"
    /\ job.paired.some /\ job.unpaired.some
    /\ Len(job.seqs) = 2

\* the number of chain copies of a job: the sum of the cardinalities
Copies(cards) == SumTo(cards, Len(cards))

\* the unique sequence chain copy c is a copy of
CopySeq(seqs, cards, c) ==
    seqs[CHOOSE s \in DOMAIN seqs :
             SumTo(cards, s - 1) < c /\ c <= SumTo(cards, s)]

\* the number of residues before chain copy c in the concatenation
RECURSIVE CopyStart(_, _, _)
CopyStart(seqs, cards, c) ==
    IF c = 1 THEN 0
    ELSE CopyStart(seqs, cards, c - 1) + Len(CopySeq(seqs, cards, c - 1))

\* the sequences are chains of residues: no gap, no insert
OfResidues(seqs) ==
    \A s \in DOMAIN seqs :
        Len(seqs[s]) > 0 /\ \A k \in DOMAIN seqs[s] : seqs[s][k] \notin Lower \cup {GAP}

\* C30: on the complex path with a model type without "multimer" the
\* sequence of the feature is the concatenation of the chain copies (each
\* unique sequence as often as its cardinality), every row of the alignment
\* text it is merged with (the pair_msa output after the query record) has
\* as many match columns as that sequence has residues, residue_index
\* restarts at 0 at every chain copy, and asym_id is constant within a
\* chain copy and one higher in the next copy.
C30_ConcatenatedChains ==
    (/\ input_feature.exc = "no" /\ input_feature.path = "complex"
     /\ OfResidues(input_feature.seqs))
    => LET seqs == input_feature.seqs
           cards == input_feature.cards
           n == Copies(cards)
           at(c, k) == CopyStart(seqs, cards, c) + k
           rows == RowsOf(input_feature.a3m_lines)
       IN  /\ Len(input_feature.sequence) = CopyStart(seqs, cards, n + 1)
           /\ Len(input_feature.residue_index) = Len(input_feature.sequence)
           /\ Len(input_feature.asym_id) = Len(input_feature.sequence)
           /\ \A i \in DOMAIN rows :
                Len(MatchColumns(rows[i][2])) = Len(input_feature.sequence)
           /\ \A c \in 1..n :
                \A k \in 1..Len(CopySeq(seqs, cards, c)) :
                    /\ input_feature.sequence[at(c, k)]
                           = CopySeq(seqs, cards, c)[k]
                    /\ input_feature.residue_index[at(c, k)] = k - 1
                    /\ input_feature.asym_id[at(c, k)]
                           = input_feature.asym_id[at(c, 1)]
                    /\ c > 1 =>
                           input_feature.asym_id[at(c, 1)]
                               = input_feature.asym_id[at(c - 1, 1)] + 1

\* C30 witness: the feature of a hetero-complex with two copies of the
\* first chain, merged with paired and padded rows
C30_Witness ==
    /\ input_feature.exc = "no" /\ input_feature.path = "complex"
    /\ input_feature.seqs = <<Seq1, Seq2>>
    /\ input_feature.cards = <<2, 1>>
    /\ input_feature.sequence = Seq1 \o Seq1 \o Seq2
    /\ input_feature.asym_id = <<0, 0, 1, 1, 2>>
    /\ Len(RowsOf(input_feature.a3m_lines)) > 3

(* ====================================================================== *)
(* crop_msa and its call sites in get_msa_and_templates_v2 (CropSpec)      *)
(* ====================================================================== *)

\* a cut that starts one column late
crop_line_late(line, start, end) ==
    slice(SelectSeq(line, LAMBDA c : c \notin Lower \cup {NL}), start, end)

\* re.sub(r"[a-z\n]", '', line)[start - 1:end]
crop_line(line, start, end) ==
    slice(SelectSeq(line, LAMBDA c : c \notin Lower \cup {NL}), start - 1,
          end)

\* the loop of crop_msa from line i on: new_lines
RECURSIVE crop_lines(_, _, _, _, _, _)
crop_lines(lines, i, active_id, start, end, drop_empty) ==
    IF i > Len(lines) THEN <<>>
    ELSE IF ~startswith(lines[i], GT) /\ active_id.some
    THEN LET new_line == crop_line(lines[i], start, end)
         IN  (IF drop_empty /\ Len(remove_all(new_line, GAP)) = 0
              THEN <<>>
              ELSE <<active_id.v, new_line>>)
             \o crop_lines(lines, i + 1, active_id, start, end, drop_empty)
    ELSE crop_lines(lines, i + 1, Some(lines[i]), start, end, drop_empty)

crop_msa(msa_str, start, end, drop_empty) ==
    join(<<NL>>, crop_lines(splitlines(msa_str), 1, None, start, end,
                            drop_empty))

\* a call site that calls crop_msa whatever the region is
crop_region_unguarded(msa_str, valid_name, region, drop_empty) ==
    crop_msa(msa_str, region[1], region[2], drop_empty)

\* `if valid_name and region[1] != -1: msa_str = crop_msa(...)`
crop_region(msa_str, valid_name, region, drop_empty) ==
    IF valid_name /\ region[2] # -1
    THEN crop_msa(msa_str, region[1], region[2], drop_empty)
    ELSE msa_str

\* the number of match-state columns of the rows
MaxCols == 3

\* chain_regions entries: the sentinel [1, -1], or start and end read
\* from the job name, 1 <= start <= end <= len(query)
Regions ==
    {<<1, -1>>}
    \cup {r \in (1..MaxCols) \X (1..MaxCols) : r[1] <= r[2]}

\* the query row of an alignment of MaxCols columns
CropQuery == [i \in 1..MaxCols |-> "A"]

\* a hit row with one residue, in column k
OneResidue(k) == [i \in 1..MaxCols |-> IF i = k THEN "C" ELSE GAP]

\* a row with an insert after its first p characters
WithInsert(row, p) ==
    SubSeq(row, 1, p) \o <<"a">> \o SubSeq(row, p + 1, Len(row))

\* the hit rows: one residue each, without an insert, with an insert after
\* the first column and with an insert at the end
CropHits ==
    {OneResidue(k) : k \in 1..MaxCols}
    \cup {WithInsert(OneResidue(k), p) : k \in 1..MaxCols, p \in {1, MaxCols}}

\* the most hit rows of a text that is cropped
MaxCropHits == 2

\* a3m texts of a search: the query, then the hits
CropTexts ==
    {rec(H101, CropQuery) \o concat([i \in DOMAIN l |-> rec(HU1, l[i])]) :
        l \in UNION {[1..n -> CropHits] : n \in 1..MaxCropHits}}

CropInit ==
    /\ RunIdle /\ CodecIdle /\ StoreIdle /\ AcqIdle
    /\ crop_call \in [fn : {"none"}, text : CropTexts,
                      valid_name : BOOLEAN, region : Regions]
    /\ crop_ret = <<>>

\* get_msa_and_templates_v2: a stored or fetched unpaired alignment passes
\* the region check and crop_msa(msa_str, start, end)
CropUnpaired ==
    /\ crop_call.fn = "none"
    /\ crop_ret' = crop_region(crop_call.text, crop_call.valid_name,
                               crop_call.region, TRUE)
    /\ crop_call' = [crop_call EXCEPT !.fn = "unpaired"]
    /\ UNCHANGED <<runstate, acquisition, codec, cache>>

\* get_msa_and_templates_v2: a paired alignment passes the region check
\* and crop_msa(..., False)
CropPaired ==
    /\ crop_call.fn = "none"
    /\ crop_ret' = crop_region(crop_call.text, crop_call.valid_name,
                               crop_call.region, FALSE)
    /\ crop_call' = [crop_call EXCEPT !.fn = "paired"]
    /\ UNCHANGED <<runstate, acquisition, codec, cache>>

CropNext == CropUnpaired \/ CropPaired

CropSpec == CropInit /\ [][CropNext]_vars

\* crop_msa ran on the text: the call site let it through
Cropped == crop_call.valid_name /\ crop_call.region[2] # -1

\* match-state columns s..e of a row
Columns(row, s, e) == SubSeq(MatchColumns(row), s, e)

\* C18 as stated: crop_msa(text, s, e) with 1 <= s <= e returns, for every
\* row of at least e match-state columns, the row's header line and then
\* the row's match-state columns s..e, e-s+1 characters.
C18_EveryRowCut ==
    (crop_call.fn = "unpaired" /\ Cropped)
    => LET s == crop_call.region[1]
           e == crop_call.region[2]
           rows == RowsOf(crop_call.text)
           out == RowsOf(crop_ret)
       IN  /\ Len(out) = Len(rows)
           /\ \A i \in DOMAIN out :
                /\ out[i][1] = rows[i][1]
                /\ out[i][2] = Columns(rows[i][2], s, e)
                /\ Len(out[i][2]) = e - s + 1

\* C18, amended: crop_msa(text, s, e) with 1 <= s <= e returns, for every
\* row of at least e match-state columns whose columns s..e hold a residue,
\* the row's header line and then the row's match-state columns s..e,
\* e-s+1 characters; a row whose columns s..e are all gaps is left out
\* together with its header line (drop_empty is True unless the caller
\* passes False).
C18_RowsWithResidueCut ==
    (crop_call.fn = "unpaired" /\ Cropped)
    => LET s == crop_call.region[1]
           e == crop_call.region[2]
           rows == SelectSeq(RowsOf(crop_call.text),
                       LAMBDA r : \E k \in s..e : MatchColumns(r[2])[k] # GAP)
           out == RowsOf(crop_ret)
       IN  /\ Len(out) = Len(rows)
           /\ \A i \in DOMAIN out :
                /\ out[i][1] = rows[i][1]
                /\ out[i][2] = Columns(rows[i][2], s, e)
                /\ Len(out[i][2]) = e - s + 1

\* a text with an insert was cut to its columns 2..3 and a row of it was
\* left out
C18_Witness ==
    /\ crop_call.fn = "unpaired" /\ Cropped
    /\ crop_call.region = <<2, 3>>
    /\ Len(RowsOf(crop_ret)) < Len(RowsOf(crop_call.text))
    /\ \E i \in DOMAIN crop_call.text : crop_call.text[i] \in Lower \ {"u"}

\* C19: a cropping with end = -1 returns its input unchanged: no row is
\* cut and no insert is removed.
C19_SentinelKeepsText ==
    (crop_call.fn # "none" /\ crop_call.region[2] = -1)
    => crop_ret = crop_call.text

\* a text with an insert went through a cropping with a valid job name and
\* the region [1, -1]
C19_Witness ==
    /\ crop_call.fn = "unpaired"
    /\ crop_call.valid_name
    /\ crop_call.region = <<1, -1>>
    /\ crop_ret = crop_call.text
    /\ \E i \in DOMAIN crop_call.text : crop_call.text[i] \in Lower \ {"u"}

(* ====================================================================== *)
(* The template store and the alignment store: lookups of                  *)
(* get_msa_and_templates_v2 and get_msa_and_templates_v3 (StoreSpec)       *)
(* ====================================================================== *)

\* the two stores and the sequences looked up
Stores == {"template", "msa"}
StoreSeqs == {Seq1, Seq2}

\* aa_seq_to_id: the hex digest of the sequence's md5 (its first 8 digits),
\* for the sequences of the model and their regions
aa_seq_to_id(sequence) ==
    CASE sequence = <<"A", "C">> -> "4144e097"
      [] sequence = <<"D">> -> "f623e75a"
      [] sequence = <<"A">> -> "7fc56270"
      [] sequence = <<"C">> -> "0d61f837"
      [] sequence = <<"C", "D">> -> "4170acd6"
      [] sequence = <<"A", "C", "D">> -> "72c5cc0e"
      [] OTHER -> "d41d8cd9"
Ids == {aa_seq_to_id(s) : s \in StoreSeqs}

\* seconds a file must have aged before v2 reads it
Grace == 20

\* bytes an alignment file must exceed before v2 reads it
MinSize == 100

\* sizes of store files in bytes, below and above MinSize
FileSizes == {50, 200}

\* time.time() advances by Tick seconds up to MaxClock
Tick == 10
MaxClock == 30

\* <store>/<id>.pkl: absent, or written at mtime for the sequence seq
NoFile == [exists |-> FALSE, mtime |-> 0, size |-> 0, seq |-> <<>>]
File(mtime, size, seq) ==
    [exists |-> TRUE, mtime |-> mtime, size |-> size, seq |-> seq]

\* the record of one lookup: the age of the file it found (-1: no file),
\* whether the payload was used, and the list of sequences to fetch
Lookup(fn, store, seq, file, now, hit) ==
    [fn |-> fn, store |-> store, seq |-> seq,
     age |-> IF file.exists THEN now - file.mtime ELSE -1,
     hit |-> hit,
     seqs_to_fetch |-> IF hit THEN <<>> ELSE <<seq>>]

\* (time.time() - os.path.getmtime(filename)) > 20
old_enough(file, now) == now - file.mtime > Grace

\* v2, template store: os.path.isfile(...) and the age test
v2_template_hit(file, seq, now) == file.exists /\ old_enough(file, now)

\* v2, alignment store: isfile, getsize > 100, the age test, and row 2 of
\* the stored text is the sequence
v2_msa_hit(file, seq, now) ==
    /\ file.exists /\ file.size > MinSize /\ old_enough(file, now)
    /\ file.seq = seq

\* v3, saved_template_features_folder: isfile, and the residue count of the
\* payload is the length of the sequence
v3_template_hit(file, seq, now) ==
    file.exists /\ Len(file.seq) = Len(seq)

\* v3, saved_unpaired_msa_features_folder: isfile, and row 2 of the stored
\* text is the sequence
v3_msa_hit(file, seq, now) == file.exists /\ file.seq = seq

StoreInit ==
    /\ RunIdle /\ CodecIdle /\ CropIdle /\ AcqIdle
    /\ clock = 0
    /\ lookup = NoLookup
    \* files an earlier or a concurrent run has just written
    /\ store_files \in
         [Stores -> [Ids -> {NoFile} \cup
                            {File(0, size, s) : size \in FileSizes,
                                                s \in StoreSeqs}]]

\* time passes
TickClock ==
    /\ clock + Tick <= MaxClock
    /\ clock' = clock + Tick
    /\ UNCHANGED <<runstate, acquisition, codec, cropper, store_files, lookup>>

\* get_msa_and_templates_v2 looks a sequence up in colabfold_template_store
V2TemplateLookup ==
    \E seq \in StoreSeqs :
        LET file == store_files["template"][aa_seq_to_id(seq)]
        IN  /\ lookup' = Lookup("v2", "template", seq, file, clock,
                                v2_template_hit(file, seq, clock))
            /\ UNCHANGED <<runstate, acquisition, codec, cropper, store_files, clock>>

\* get_msa_and_templates_v2 looks a sequence up in colabfold_unpaired_msa_store
V2MsaLookup ==
    \E seq \in StoreSeqs :
        LET file == store_files["msa"][aa_seq_to_id(seq)]
        IN  /\ lookup' = Lookup("v2", "msa", seq, file, clock,
                                v2_msa_hit(file, seq, clock))
            /\ UNCHANGED <<runstate, acquisition, codec, cropper, store_files, clock>>

\* get_msa_and_templates_v3 looks a sequence up in
\* saved_template_features_folder
V3TemplateLookup ==
    \E seq \in StoreSeqs :
        LET file == store_files["template"][aa_seq_to_id(seq)]
        IN  /\ lookup' = Lookup("v3", "template", seq, file, clock,
                                v3_template_hit(file, seq, clock))
            /\ UNCHANGED <<runstate, acquisition, codec, cropper, store_files, clock>>

\* get_msa_and_templates_v3 looks a sequence up in
\* saved_unpaired_msa_features_folder
V3MsaLookup ==
    \E seq \in StoreSeqs :
        LET file == store_files["msa"][aa_seq_to_id(seq)]
        IN  /\ lookup' = Lookup("v3", "msa", seq, file, clock,
                                v3_msa_hit(file, seq, clock))
            /\ UNCHANGED <<runstate, acquisition, codec, cropper, store_files, clock>>

\* v2 after a miss: the fetched payload is written under the sequence's id
V2Write ==
    /\ lookup.fn = "v2" /\ ~lookup.hit
    /\ \E size \in FileSizes :
         store_files' =
           [store_files EXCEPT ![lookup.store][aa_seq_to_id(lookup.seq)] =
               File(clock, size, lookup.seq)]
    /\ lookup' = NoLookup
    /\ UNCHANGED <<runstate, acquisition, codec, cropper, clock>>

StoreNext ==
    \/ TickClock
    \/ V2TemplateLookup
    \/ V2MsaLookup
    \/ V3TemplateLookup
    \/ V3MsaLookup
    \/ V2Write

StoreSpec == StoreInit /\ [][StoreNext]_vars

\* C20: a lookup that finds a file written less than 20 s before does not
\* use it, in the template store and in the alignment store, in v2 and in
\* v3: it is a miss and the sequence is on the list to fetch.
C20_YoungFileIsMiss ==
    (lookup.fn # "none" /\ lookup.age >= 0 /\ lookup.age < Grace)
    => ~lookup.hit /\ lookup.seqs_to_fetch = <<lookup.seq>>

\* the file a recorded lookup opened: no action changes it while the lookup
\* is recorded
probed ==
    store_files[lookup.store][aa_seq_to_id(lookup.seq)]

\* the payload of a store file does not fit the sequence asked for: row 2 of
\* an alignment text is another sequence, a template feature has another
\* residue count
payload_disagrees(store, file, seq) ==
    IF store = "msa" THEN file.seq # seq ELSE Len(file.seq) # Len(seq)

\* C21: a lookup that finds a file whose payload disagrees with the
\* requested sequence does not use it, in either store and in v2 and v3: it
\* is a miss and the sequence is on the list to fetch.
C21_DisagreeingPayloadIsMiss ==
    (/\ lookup.fn # "none"
     /\ probed.exists
     /\ payload_disagrees(lookup.store, probed, lookup.seq))
    => ~lookup.hit /\ lookup.seqs_to_fetch = <<lookup.seq>>

(* ====================================================================== *)
(* The acquisition routines get_msa_and_templates, _v2 and _v3 (AcqSpec)   *)
(* ====================================================================== *)

\* the most chains of a job
MaxChains == 2

\* the largest residue number a job name gives for a region
MaxEnd == 1

\* the sequences of the chains
AcqSeqs == {Seq1, Seq2}

\* what a component of the job name says of its chain: no region (the
\* sentinel [1, -1]), or the region k-k
NameRegions == {<<1, -1>>} \cup {<<k, k>> : k \in 1..MaxEnd}

\* the sequences a store can hold a file for: the chains and their regions
StoredSeqs ==
    UNION {{SubSeq(s, a, b) : a \in 1..Len(s), b \in 1..Len(s)} \ {<<>>} :
              s \in AcqSeqs}

\* the keys of the stores
AcqIds == {aa_seq_to_id(s) : s \in StoredSeqs}

\* a store file: pickle.dump(payload) at time mtime, size bytes long
AcqFile(mtime, size, payload) ==
    [exists |-> TRUE, mtime |-> mtime, size |-> size, payload |-> payload]
NoAcqFile == [exists |-> FALSE, mtime |-> 0, size |-> 0, payload |-> <<>>]

\* mk_mock_template(query_sequence): arrays of len(query_sequence)
\* residues, domain name "none"
mk_mock_template(query_sequence) ==
    [residues |-> Len(query_sequence), domain_names |-> <<"none">>]

\* mk_template(a3m_lines, template_path, query_sequence): the features of
\* the hits found under template_path, for len(query_sequence) residues
mk_template(a3m_lines, template_path, query_sequence) ==
    [residues |-> Len(query_sequence),
     domain_names |-> IF template_path = "hits" THEN <<"1abc_A">> ELSE <<>>]

\* what run_mmseqs2(..., use_templates=True) finds: no template for any
\* sequence (template_paths is None), or for every sequence no directory
\* ("nopath"), a directory with usable hits or one without
NoPaths == <<"None">>
PathKinds == {"nopath", "hits", "nohits"}
Found == {"None"} \cup PathKinds

\* template_paths for n sequences searched
template_paths_of(found, n) ==
    IF found = "None" THEN NoPaths ELSE [i \in 1..n |-> found]

\* the row a search aligns to a sequence: its first residue is a gap
hit_row(seq) == [i \in DOMAIN seq |-> IF i = 1 THEN GAP ELSE seq[i]]

\* what run_mmseqs2 gives for the i-th sequence searched: the query as
\* record 101 + i, then one hit
search_a3m(seq, i) ==
    rec(<<GT>> \o str(101 + i), seq) \o rec(HU1, hit_row(seq))

\* run_mmseqs2(seqs, ...): one a3m text for each sequence
run_mmseqs2(seqs) == [i \in DOMAIN seqs |-> search_a3m(seqs[i], i - 1)]

\* the arguments of a call, and what the remote search and the file system
\* answer during it
AcqCall(fn, query_sequences, names, msa_mode, templates, pair_mode, found, size) ==
    [fn |-> fn, query_sequences |-> query_sequences, names |-> names,
     msa_mode |-> msa_mode, use_templates |-> templates,
     pair_mode |-> pair_mode, found |-> found, size |-> size]

\* lines 228-247: valid_name and chain_regions from the components of the
\* job name (one per chain when the name is well formed)
valid_region(region, seq) ==
    ~(region[1] < 1 \/ region[2] < region[1] \/ region[2] > Len(seq))

parse_valid_name(names, query_sequences) ==
    /\ Len(names) = Len(query_sequences)
    /\ \A i \in DOMAIN names :
         names[i] = <<1, -1>> \/ valid_region(names[i], query_sequences[i])

\* query_seqs_unique[index][chain_regions[index][0] - 1:chain_regions[index][1]]
\* under `if valid_name and chain_regions[index][1] != -1`
region_of(seq, valid_name, chain_regions, index) ==
    IF valid_name /\ chain_regions[index][2] # -1
    THEN slice(seq, chain_regions[index][1] - 1, chain_regions[index][2])
    ELSE seq

\* the indices of a set in the order the loop `for index in range(...)`
\* meets them
ascending(indices) ==
    CHOOSE l \in [1..Cardinality(indices) -> indices] :
        \A i, k \in DOMAIN l : i < k => l[i] < l[k]

\* pickle.dump of each entry in turn: a later entry overwrites an earlier
\* one under the same key
RECURSIVE dump_all(_, _, _, _)
dump_all(dir, entries, now, size) ==
    IF Len(entries) = 0 THEN dir
    ELSE dump_all([dir EXCEPT ![entries[1].key] =
                       AcqFile(now, size, entries[1].payload)],
                  Tail(entries), now, size)

\* what a routine leaves behind: the exception it raised or the tuple it
\* returned, the lists the two searches were called with (None: not
\* called), and the stores
Outcome(exc, a3m_lines, paired_a3m_lines, query_seqs_unique, query_seqs_cardinality, template_features, template_search, msa_search, store) ==
    [exc |-> exc, a3m_lines |-> a3m_lines,
     paired_a3m_lines |-> paired_a3m_lines,
     query_seqs_unique |-> query_seqs_unique,
     query_seqs_cardinality |-> query_seqs_cardinality,
     template_features |-> template_features,
     template_search |-> template_search, msa_search |-> msa_search,
     store |-> store]

\* stored_feature = None
NoFeature == [residues |-> -1, domain_names |-> <<>>]

\* chain_regions as the routine indexes it: one entry per chain (it is
\* read only under valid_name)
regions_of(names, query_sequences) ==
    IF Len(names) = Len(query_sequences) THEN names
    ELSE [i \in DOMAIN query_sequences |-> <<1, -1>>]

\* v2 lines 271-282: the template lookup of a chain, under the id of its
\* region
v2_stored_feature(store, actual_seq, now) ==
    LET file == store["template"][aa_seq_to_id(actual_seq)]
    IN  IF file.exists /\ now - file.mtime > Grace THEN file.payload
        ELSE NoFeature

\* v2 lines 268-287: template_features as the lookups leave it
v2_stored_features(qs, valid_name, chain_regions, store, now) ==
    [index \in DOMAIN qs |->
        v2_stored_feature(store,
            region_of(qs[index], valid_name, chain_regions, index), now)]

\* a lookup that fetches every chain again
indices_of_all(stored) == ascending(DOMAIN stored)

\* v2 lines 284-287: indices_fetched
indices_of_none(stored) ==
    ascending({index \in DOMAIN stored : stored[index] = NoFeature})

\* indices_fetched of the template lookup of a call
v2_template_misses(call, store, now) ==
    indices_of_none(
        v2_stored_features(call.query_sequences,
            parse_valid_name(call.names, call.query_sequences),
            regions_of(call.names, call.query_sequences), store, now))

\* v2 lines 298-305: the template MSAs cut to the regions, and
\* template_paths with None where nothing is left
v2_cropped_msas(a3m_lines_mmseqs2, valid_name, chain_regions, indices_fetched) ==
    [i \in DOMAIN a3m_lines_mmseqs2 |->
        crop_region(a3m_lines_mmseqs2[i], valid_name,
                    chain_regions[indices_fetched[i]], TRUE)]

v2_emptied(cropped, valid_name, chain_regions, indices_fetched) ==
    {i \in DOMAIN cropped :
        /\ valid_name
        /\ chain_regions[indices_fetched[i]][2] # -1
        /\ Len(cropped[i]) = 0}

v2_template_paths(found, emptied) ==
    IF found = NoPaths THEN NoPaths
    ELSE [i \in DOMAIN found |-> IF i \in emptied THEN "nopath" ELSE found[i]]

\* v2 lines 313 and 324-326: the sequence the feature of the i-th fetched
\* chain is made for and stored under
v2_feature_seqs(template_paths, seqs_to_fetch, valid_name, chain_regions, indices_fetched) ==
    [i \in DOMAIN seqs_to_fetch |->
        IF template_paths = NoPaths THEN seqs_to_fetch[i]
        ELSE region_of(seqs_to_fetch[i], valid_name, chain_regions,
                       indices_fetched[i])]

\* v2 lines 335-337: a template without domain names gives way to a mock
made_or_mock(made, seq) ==
    IF Len(made.domain_names) = 0 THEN mk_mock_template(seq) ELSE made

\* v2 lines 314 and 328-345: the feature of the i-th fetched chain
v2_template_features(template_paths, cropped, seqs) ==
    [i \in DOMAIN seqs |->
        IF template_paths = NoPaths THEN mk_mock_template(seqs[i])
        ELSE IF template_paths[i] # "nopath"
        THEN made_or_mock(mk_template(cropped[i], template_paths[i],
                                      seqs[i]), seqs[i])
        ELSE mk_mock_template(seqs[i])]

\* v2 lines 316-320 and 346-350: the features are stored and dumped
v2_store_features(store, now, size, stored, indices_fetched, seqs, features, searched) ==
    [exc |-> "none", searched |-> searched,
     store |->
         [store EXCEPT !["template"] =
             dump_all(@, [i \in DOMAIN seqs |->
                             [key |-> aa_seq_to_id(seqs[i]),
                              payload |-> features[i]]], now, size)],
     template_features |->
         [index \in DOMAIN stored |->
             IF \E i \in DOMAIN indices_fetched : indices_fetched[i] = index
             THEN features[CHOOSE i \in DOMAIN indices_fetched :
                               indices_fetched[i] = index]
             ELSE stored[index]]]

\* v2 lines 289-350: the search for the sequences of the missed chains
v2_fetch_paths(call, store, now, stored, indices_fetched, seqs_to_fetch, cropped, template_paths) ==
    v2_store_features(store, now, call.size, stored, indices_fetched,
        v2_feature_seqs(template_paths, seqs_to_fetch,
            parse_valid_name(call.names, call.query_sequences),
            regions_of(call.names, call.query_sequences), indices_fetched),
        v2_template_features(template_paths, cropped,
            v2_feature_seqs(template_paths, seqs_to_fetch,
                parse_valid_name(call.names, call.query_sequences),
                regions_of(call.names, call.query_sequences),
                indices_fetched)),
        Some(seqs_to_fetch))

v2_fetch_cropped(call, store, now, stored, indices_fetched, seqs_to_fetch, cropped, emptied) ==
    \* line 305: template_paths[i] = None with template_paths = None
    IF call.found = "None" /\ emptied # {}
    THEN [exc |-> "TypeError", searched |-> Some(seqs_to_fetch),
          store |-> store, template_features |-> <<>>]
    ELSE v2_fetch_paths(call, store, now, stored, indices_fetched,
             seqs_to_fetch, cropped,
             v2_template_paths(
                 template_paths_of(call.found, Len(seqs_to_fetch)), emptied))

v2_fetch(call, store, now, stored, indices_fetched, seqs_to_fetch, cropped) ==
    v2_fetch_cropped(call, store, now, stored, indices_fetched,
        seqs_to_fetch, cropped,
        v2_emptied(cropped,
            parse_valid_name(call.names, call.query_sequences),
            regions_of(call.names, call.query_sequences), indices_fetched))

v2_lookup_done(call, store, now, stored, indices_fetched, seqs_to_fetch) ==
    IF Len(seqs_to_fetch) = 0
    THEN [exc |-> "none", searched |-> None, store |-> store,
          template_features |-> stored]
    ELSE v2_fetch(call, store, now, stored, indices_fetched, seqs_to_fetch,
             v2_cropped_msas(run_mmseqs2(seqs_to_fetch),
                 parse_valid_name(call.names, call.query_sequences),
                 regions_of(call.names, call.query_sequences),
                 indices_fetched))

v2_looked_up(call, store, now, stored, indices_fetched) ==
    v2_lookup_done(call, store, now, stored, indices_fetched,
        [i \in DOMAIN indices_fetched |->
            call.query_sequences[indices_fetched[i]]])

\* v2 lines 264-367: template_features, the search and the writes
v2_templates(call, store, now, stored) ==
    IF ~call.use_templates
    THEN [exc |-> "none", searched |-> None, store |-> store,
          template_features |->
              [index \in DOMAIN call.query_sequences |->
                  mk_mock_template(
                      region_of(call.query_sequences[index],
                          parse_valid_name(call.names, call.query_sequences),
                          regions_of(call.names, call.query_sequences),
                          index))]]
    ELSE v2_looked_up(call, store, now, stored, indices_of_none(stored))

\* f">{num + i}\n{seq}" with num = 101 and i counted from 0
single_record(i, seq) == <<GT>> \o str(101 + i) \o <<NL>> \o seq

\* v2 lines 373-380, single_sequence mode: every record is cut with
\* `index`, which the loop of lines 364-365 left at the last chain
v2_single_sequence(query_seqs_unique, valid_name, chain_regions, index) ==
    [i \in DOMAIN query_seqs_unique |->
        single_record(i - 1,
            IF valid_name /\ chain_regions[index][2] # -1
            THEN slice(query_seqs_unique[index],
                       chain_regions[index][1] - 1, chain_regions[index][2])
            ELSE query_seqs_unique[i])]

\* v2 lines 388-401: the alignment lookup of a sequence, under the id of
\* the whole sequence; None when there is no usable file
v2_stored_msa(store, seq, now) ==
    LET file == store["msa"][aa_seq_to_id(seq)]
    IN  IF /\ file.exists /\ file.size > MinSize
           /\ now - file.mtime > Grace
        THEN IF splitlines(file.payload)[2] # seq THEN None
             ELSE Some(file.payload)
        ELSE None

\* v2 lines 388-410: stored_msa of every chain, and indices_fetched
v2_stored_msas(qs, store, now) ==
    [index \in DOMAIN qs |-> v2_stored_msa(store, qs[index], now)]

v2_msa_misses(call, store, now) ==
    ascending({index \in DOMAIN call.query_sequences :
        ~v2_stored_msa(store, call.query_sequences[index], now).some})

\* v2 lines 412-446: the search for the missed sequences, the writes, and
\* the alignments cut to the regions
v2_fetch_msas(call, store, now, stored, indices_fetched, seqs_to_fetch, newly_fetched_a3ms) ==
    [searched |-> IF Len(seqs_to_fetch) > 0 THEN Some(seqs_to_fetch)
                  ELSE None,
     store |->
         [store EXCEPT !["msa"] =
             dump_all(@, [i \in DOMAIN seqs_to_fetch |->
                             [key |-> aa_seq_to_id(seqs_to_fetch[i]),
                              payload |-> newly_fetched_a3ms[i]]],
                      now, call.size)],
     a3m_lines |->
         [index \in DOMAIN stored |->
             crop_region(
                 IF stored[index].some THEN stored[index].v
                 ELSE newly_fetched_a3ms[
                          CHOOSE i \in DOMAIN indices_fetched :
                              indices_fetched[i] = index],
                 parse_valid_name(call.names, call.query_sequences),
                 regions_of(call.names, call.query_sequences)[index],
                 TRUE)]]

v2_msas_looked_up(call, store, now, stored, indices_fetched, seqs_to_fetch) ==
    v2_fetch_msas(call, store, now, stored, indices_fetched, seqs_to_fetch,
                  run_mmseqs2(seqs_to_fetch))

\* v2 lines 382-446: the unpaired alignments
v2_unpaired(call, store, now, indices_fetched) ==
    v2_msas_looked_up(call, store, now,
        v2_stored_msas(call.query_sequences, store, now), indices_fetched,
        [i \in DOMAIN indices_fetched |->
            call.query_sequences[indices_fetched[i]]])

\* run_mmseqs2(seqs, ..., use_pairing=True): the paired a3m of each
\* sequence, here its query record alone
run_mmseqs2_paired(seqs) ==
    [i \in DOMAIN seqs |-> rec(<<GT>> \o str(101 + i - 1), seqs[i])]

\* v2 lines 448-473: the paired alignments, cut with drop_empty = False
v2_paired(call, pair_mode, valid_name, chain_regions) ==
    IF call.msa_mode # "single_sequence"
       /\ pair_mode \in {"paired", "unpaired_paired"}
    THEN Some([index \in DOMAIN call.query_sequences |->
                  crop_region(
                      run_mmseqs2_paired(call.query_sequences)[index],
                      valid_name, chain_regions[index], FALSE)])
    ELSE None

\* v2 lines 475-498: the sequences are cut to their regions and the tuple
\* is returned
v2_return(call, valid_name, chain_regions, templates, a3m_lines, paired_a3m_lines, msa_search, store_after) ==
    IF ~a3m_lines.some
    \* line 489: len(a3m_lines[index]) with a3m_lines = None
    THEN Outcome("TypeError", None, None, <<>>, <<>>, <<>>,
                 templates.searched, msa_search, store_after)
    ELSE Outcome("none", a3m_lines, paired_a3m_lines,
                 [index \in DOMAIN call.query_sequences |->
                     region_of(call.query_sequences[index], valid_name,
                               chain_regions, index)],
                 [i \in DOMAIN call.query_sequences |-> 1],
                 templates.template_features, templates.searched,
                 msa_search, store_after)

\* v2 lines 365-446: the unpaired alignments of the pair mode
v2_alignments(call, now, pair_mode, valid_name, chain_regions, templates, unpaired) ==
    IF pair_mode \notin {"none", "unpaired", "unpaired_paired"}
    THEN v2_return(call, valid_name, chain_regions, templates, None,
                   v2_paired(call, pair_mode, valid_name, chain_regions),
                   None, templates.store)
    ELSE IF call.msa_mode = "single_sequence"
    THEN v2_return(call, valid_name, chain_regions, templates,
                   Some(v2_single_sequence(call.query_sequences, valid_name,
                            chain_regions, Len(call.query_sequences))),
                   v2_paired(call, pair_mode, valid_name, chain_regions),
                   None, templates.store)
    ELSE v2_return(call, valid_name, chain_regions, templates,
                   Some(unpaired.a3m_lines),
                   v2_paired(call, pair_mode, valid_name, chain_regions),
                   unpaired.searched, unpaired.store)

v2_after_templates(call, now, valid_name, chain_regions, templates) ==
    IF templates.exc # "none"
    THEN Outcome(templates.exc, None, None, <<>>, <<>>, <<>>,
                 templates.searched, None, templates.store)
    ELSE v2_alignments(call, now,
             IF Len(call.query_sequences) = 1 THEN "none"
             ELSE call.pair_mode,
             valid_name, chain_regions, templates,
             v2_unpaired(call, templates.store, now,
                         v2_msa_misses(call, templates.store, now)))

\* get_msa_and_templates_v2(jobname, query_sequences, ...), with the
\* stores as they are at time now
get_msa_and_templates_v2(call, store, now) ==
    v2_after_templates(call, now,
        parse_valid_name(call.names, call.query_sequences),
        regions_of(call.names, call.query_sequences),
        v2_templates(call, store, now,
            v2_stored_features(call.query_sequences,
                parse_valid_name(call.names, call.query_sequences),
                regions_of(call.names, call.query_sequences), store, now)))

\* list.index(x): the first position of x
index_of(list, x) ==
    CHOOSE i \in DOMAIN list :
        list[i] = x /\ \A k \in 1..(i - 1) : list[k] # x

\* v3 lines 522-526, v1 lines 1467-1471: the sequences in first-seen order
\* without the repeats
RECURSIVE unique(_)
unique(query_sequences) ==
    IF Len(query_sequences) = 0 THEN <<>>
    ELSE LET n == Len(query_sequences)
             before == unique(SubSeq(query_sequences, 1, n - 1))
             x == query_sequences[n]
         IN  IF \E k \in DOMAIN before : before[k] = x THEN before
             ELSE Append(before, x)

\* v3 lines 528-532, v1 lines 1473-1477: query_seqs_cardinality
cardinality(query_sequences) ==
    LET query_seqs_unique == unique(query_sequences)
    IN  [seq_idx \in DOMAIN query_seqs_unique |->
            Cardinality({k \in DOMAIN query_sequences :
                index_of(query_seqs_unique, query_sequences[k]) = seq_idx})]

\* the feature a search gives for the i-th sequence searched (v1 lines
\* 1493-1514, v3 lines 584-607)
searched_feature(a3m_lines_mmseqs2, template_paths, seqs, i) ==
    IF template_paths = NoPaths THEN mk_mock_template(seqs[i])
    ELSE IF template_paths[i] # "nopath"
    THEN LET made == mk_template(a3m_lines_mmseqs2[i], template_paths[i],
                                 seqs[i])
         IN  IF Len(made.domain_names) = 0 THEN mk_mock_template(seqs[i])
             ELSE made
    ELSE mk_mock_template(seqs[i])

\* the paired alignments of v1 (lines 1545-1560) and v3 (lines 695-715)
paired_of(call, query_seqs_unique, pair_mode) ==
    IF call.msa_mode # "single_sequence"
       /\ pair_mode \in {"paired", "unpaired_paired"}
    THEN IF Len(query_seqs_unique) > 1
         THEN Some(run_mmseqs2_paired(query_seqs_unique))
         ELSE Some([i \in 1..cardinality(call.query_sequences)[1] |->
                       rec(<<GT>> \o str(101 + i - 1), query_seqs_unique[1])])
    ELSE None

\* single_sequence mode of v1 (lines 1526-1531) and v3 (lines 627-632)
single_sequence(query_seqs_unique) ==
    [i \in DOMAIN query_seqs_unique |->
        single_record(i - 1, query_seqs_unique[i])]

\* get_msa_and_templates(jobname, query_sequences, ...): no store is read
\* or written
get_msa_and_templates(call, store, now) ==
    LET query_seqs_unique == unique(call.query_sequences)
        pair_mode == IF Len(call.query_sequences) = 1 THEN "none"
                     ELSE call.pair_mode
        unpaired_wanted ==
            pair_mode \in {"none", "unpaired", "unpaired_paired"}
        a3m_lines_mmseqs2 == run_mmseqs2(query_seqs_unique)
    IN  Outcome("none",
            IF ~unpaired_wanted THEN None
            ELSE IF call.msa_mode = "single_sequence"
            THEN Some(single_sequence(query_seqs_unique))
            ELSE Some(run_mmseqs2(query_seqs_unique)),
            paired_of(call, query_seqs_unique, pair_mode),
            query_seqs_unique,
            cardinality(call.query_sequences),
            [index \in DOMAIN query_seqs_unique |->
                IF call.use_templates
                THEN searched_feature(a3m_lines_mmseqs2,
                         template_paths_of(call.found,
                                           Len(query_seqs_unique)),
                         query_seqs_unique, index)
                ELSE mk_mock_template(query_seqs_unique[index])],
            IF call.use_templates THEN Some(query_seqs_unique) ELSE None,
            IF unpaired_wanted /\ call.msa_mode # "single_sequence"
            THEN Some(query_seqs_unique) ELSE None,
            store)

\* v3 lines 540-552: the indices with a usable file in
\* saved_template_features_folder
v3_template_hits(query_seqs_unique, store) ==
    {index \in DOMAIN query_seqs_unique :
        LET file == store["template"][aa_seq_to_id(query_seqs_unique[index])]
        IN  /\ file.exists
            /\ file.payload.residues = Len(query_seqs_unique[index])}

\* v3 lines 639-651: the indices with a usable file in
\* saved_unpaired_msa_features_folder
v3_msa_hits(query_seqs_unique, store) ==
    {index \in DOMAIN query_seqs_unique :
        LET file == store["msa"][aa_seq_to_id(query_seqs_unique[index])]
        IN  /\ file.exists
            /\ split(file.payload, NL)[2] = query_seqs_unique[index]}

\* get_msa_and_templates_v3(jobname, query_sequences, ...,
\* saved_template_features_folder, saved_unpaired_msa_features_folder)
get_msa_and_templates_v3(call, store, now) ==
    LET query_seqs_unique == unique(call.query_sequences)
        indices == DOMAIN query_seqs_unique
        pair_mode == IF Len(call.query_sequences) = 1 THEN "none"
                     ELSE call.pair_mode
        unpaired_wanted ==
            pair_mode \in {"none", "unpaired", "unpaired_paired"}
        \* templates
        template_ix == ascending(indices
                                 \ v3_template_hits(query_seqs_unique, store))
        seqs_to_search == [i \in DOMAIN template_ix |->
                              query_seqs_unique[template_ix[i]]]
        a3m_lines_mmseqs2 == run_mmseqs2(seqs_to_search)
        template_features ==
            [index \in indices |->
                IF ~call.use_templates
                THEN mk_mock_template(query_seqs_unique[index])
                ELSE IF index \in v3_template_hits(query_seqs_unique, store)
                THEN store["template"][
                         aa_seq_to_id(query_seqs_unique[index])].payload
                ELSE searched_feature(a3m_lines_mmseqs2,
                         template_paths_of(call.found, Len(seqs_to_search)),
                         seqs_to_search,
                         CHOOSE i \in DOMAIN template_ix :
                             template_ix[i] = index)]
        \* unpaired alignments
        msa_ix == ascending(indices \ v3_msa_hits(query_seqs_unique, store))
        msas_to_search == [i \in DOMAIN msa_ix |->
                              query_seqs_unique[msa_ix[i]]]
        new_a3m_lines == run_mmseqs2(msas_to_search)
        searches == unpaired_wanted /\ call.msa_mode # "single_sequence"
    IN  Outcome("none",
            IF ~unpaired_wanted THEN None
            ELSE IF call.msa_mode = "single_sequence"
            THEN Some(single_sequence(query_seqs_unique))
            ELSE Some([index \in indices |->
                     IF index \in v3_msa_hits(query_seqs_unique, store)
                     THEN store["msa"][
                             aa_seq_to_id(query_seqs_unique[index])].payload
                     ELSE new_a3m_lines[CHOOSE i \in DOMAIN msa_ix :
                                            msa_ix[i] = index]]),
            paired_of(call, query_seqs_unique, pair_mode),
            query_seqs_unique,
            cardinality(call.query_sequences),
            template_features,
            IF call.use_templates /\ Len(seqs_to_search) > 0
            THEN Some(seqs_to_search) ELSE None,
            IF searches /\ Len(msas_to_search) > 0
            THEN Some(msas_to_search) ELSE None,
            store)

\* bytes of a file that pickle.dump writes for a fetched payload
WrittenSize == 200

\* the stores after earlier runs have fetched the sequences of had
StoreOf(had) ==
    [store \in Stores |->
        [id \in AcqIds |->
            IF \E s \in had : aa_seq_to_id(s) = id
            THEN LET s == CHOOSE s \in had : aa_seq_to_id(s) = id
                 IN  AcqFile(0, WrittenSize,
                             IF store = "template" THEN mk_mock_template(s)
                             ELSE search_a3m(s, 0))
            ELSE NoAcqFile]]

\* the jobs: the sequences of the chains, and the regions the job name
\* gives, one per chain (no component at all: a name of another form)
AcqJobs ==
    UNION {{<<qs, names>> :
               qs \in [1..n -> AcqSeqs],
               names \in [1..n -> NameRegions] \cup {<<>>}} :
           n \in 1..MaxChains}

MsaModes == {"mmseqs2_uniref_env", "single_sequence"}
PairModes == {"unpaired_paired", "paired"}

AcqInit ==
    /\ RunIdle /\ CodecIdle /\ CropIdle /\ StoreIdle
    /\ acq_store \in {StoreOf(had) : had \in SUBSET AcqSeqs \cup {StoredSeqs}}
    /\ acq_call = NoAcqCall
    /\ acq_ret = <<>>

\* what a call leaves in acq_ret: its outcome, the stores it found and
\* the time it ran at
Returned(out, before, now) == [out |-> out, before |-> before, now |-> now]

\* the first call, or the same call once more
again(call) == acq_call.fn = "none" \/ call = acq_call

\* a job is handed to get_msa_and_templates
CallV1 ==
    \E job_ \in AcqJobs, msa_mode \in MsaModes, templates \in BOOLEAN,
       pair_mode \in PairModes, found \in Found :
        LET call == AcqCall("v1", job_[1], job_[2], msa_mode, templates,
                            pair_mode, found, WrittenSize)
            out == get_msa_and_templates(call, acq_store, clock)
        IN  /\ again(call)
            /\ templates \/ found = "None"
            /\ acq_call' = call
            /\ acq_ret' = Returned(out, acq_store, clock)
            /\ acq_store' = out.store
            /\ UNCHANGED <<runstate, codec, cropper, cache>>

\* a job is handed to get_msa_and_templates_v2
CallV2 ==
    \E job_ \in AcqJobs, msa_mode \in MsaModes, templates \in BOOLEAN,
       pair_mode \in PairModes, found \in Found :
        LET call == AcqCall("v2", job_[1], job_[2], msa_mode, templates,
                            pair_mode, found, WrittenSize)
            out == get_msa_and_templates_v2(call, acq_store, clock)
        IN  /\ again(call)
            /\ templates \/ found = "None"
            /\ acq_call' = call
            /\ acq_ret' = Returned(out, acq_store, clock)
            /\ acq_store' = out.store
            /\ UNCHANGED <<runstate, codec, cropper, cache>>

\* a job is handed to get_msa_and_templates_v3
CallV3 ==
    \E job_ \in AcqJobs, msa_mode \in MsaModes, templates \in BOOLEAN,
       pair_mode \in PairModes, found \in Found :
        LET call == AcqCall("v3", job_[1], job_[2], msa_mode, templates,
                            pair_mode, found, WrittenSize)
            out == get_msa_and_templates_v3(call, acq_store, clock)
        IN  /\ again(call)
            /\ templates \/ found = "None"
            /\ acq_call' = call
            /\ acq_ret' = Returned(out, acq_store, clock)
            /\ acq_store' = out.store
            /\ UNCHANGED <<runstate, codec, cropper, cache>>

\* time passes between two calls: more than the 20 s of v2's age test
AcqTick ==
    /\ clock + Grace + 1 <= MaxClock
    /\ clock' = clock + Grace + 1
    /\ UNCHANGED <<runstate, codec, cropper, store_files, lookup,
                   acquisition>>

AcqNext ==
    \/ CallV1
    \/ CallV2
    \/ CallV3
    \/ AcqTick

AcqSpec == AcqInit /\ [][AcqNext]_vars

(* ---------------------------------------------------------------------- *)
(* Properties of the acquisition routines                                  *)
(* ---------------------------------------------------------------------- *)

\* the last call returned a tuple
Acquired(fn) == acq_call.fn = fn /\ acq_ret.out.exc = "none"

\* valid_name and chain_regions of the last call
LastValidName == parse_valid_name(acq_call.names, acq_call.query_sequences)
LastRegions == regions_of(acq_call.names, acq_call.query_sequences)

\* the sequence of chain index of the last call, cut to its region where
\* the job name gives a valid one
OwnSeq(index) ==
    region_of(acq_call.query_sequences[index], LastValidName, LastRegions,
              index)

\* the last call looks unpaired alignments up: not in single_sequence
\* mode, and not for a complex in pair mode "paired"
MsaWanted ==
    /\ acq_call.msa_mode # "single_sequence"
    /\ \/ Len(acq_call.query_sequences) = 1
       \/ acq_call.pair_mode \in {"unpaired", "unpaired_paired"}

\* the chains whose template lookup, and whose alignment lookup, missed in
\* the last call of v2
V2TemplateMissed ==
    IF acq_call.use_templates
    THEN LET l == v2_template_misses(acq_call, acq_ret.before, acq_ret.now)
         IN  {l[i] : i \in DOMAIN l}
    ELSE {}
V2MsaMissed ==
    IF MsaWanted
    THEN LET l == v2_msa_misses(acq_call, acq_ret.before, acq_ret.now)
         IN  {l[i] : i \in DOMAIN l}
    ELSE {}

\* C22: after get_msa_and_templates_v2 has fetched and written an entry
\* for a chain, the lookup of the same chain (same sequence, same region)
\* made after the grace window finds an entry under its key and returns
\* what the call wrote for that sequence: the template feature it
\* returned, and the alignment from which the returned rows were cut.
C22_WrittenEntryIsReadBack ==
    Acquired("v2") =>
        LET later == acq_ret.now + Grace + 1
        IN  /\ \A index \in V2TemplateMissed :
                 \E k \in V2TemplateMissed :
                     /\ OwnSeq(k) = OwnSeq(index)
                     /\ v2_stored_feature(acq_store, OwnSeq(index), later)
                            = acq_ret.out.template_features[k]
            /\ \A index \in V2MsaMissed :
                 LET stored_msa ==
                         v2_stored_msa(acq_store,
                             acq_call.query_sequences[index], later)
                 IN  /\ stored_msa.some
                     /\ \E k \in V2MsaMissed :
                          /\ acq_call.query_sequences[k]
                                 = acq_call.query_sequences[index]
                          /\ crop_region(stored_msa.v, LastValidName,
                                         LastRegions[k], TRUE)
                                 = acq_ret.out.a3m_lines.v[k]

\* <store>/<id of seq>.pkl was written by the last call
WrittenNow(store, seq) ==
    LET file == acq_store[store][aa_seq_to_id(seq)]
    IN  file.exists /\ file.mtime = acq_ret.now

\* the sequences the last call searched templates and alignments for
Searched(search) ==
    IF search.some THEN {search.v[i] : i \in DOMAIN search.v} ELSE {}

\* C23: when get_msa_and_templates_v2 or _v3 has returned a tuple, every
\* sequence whose lookup missed (the sequences the search was called with)
\* has a file written by this call in the store concerned, under the id of
\* the sequence (in v2 for templates: of the sequence or of its region).
C23_MissesAreStored ==
    /\ Acquired("v2") =>
         /\ \A index \in V2TemplateMissed :
              \/ WrittenNow("template", acq_call.query_sequences[index])
              \/ WrittenNow("template", OwnSeq(index))
         /\ \A index \in V2MsaMissed :
              WrittenNow("msa", acq_call.query_sequences[index])
    /\ Acquired("v3") =>
         /\ \A seq \in Searched(acq_ret.out.template_search) :
              WrittenNow("template", seq)
         /\ \A seq \in Searched(acq_ret.out.msa_search) :
              WrittenNow("msa", seq)

\* the file the last call found under the id of seq
Before(store, seq) == acq_ret.before[store][aa_seq_to_id(seq)]

\* the cache rules of the two routines: v2 wants a file older than the
\* grace window (for alignments larger than MinSize); both want the
\* payload of an alignment to be for the sequence, v3 that of a template
\* to have its residue count
V2TemplateHit(index) ==
    /\ Before("template", OwnSeq(index)).exists
    /\ acq_ret.now - Before("template", OwnSeq(index)).mtime > Grace
V2MsaHit(index) ==
    LET file == Before("msa", acq_call.query_sequences[index])
    IN  /\ file.exists /\ file.size > MinSize
        /\ acq_ret.now - file.mtime > Grace
        /\ splitlines(file.payload)[2] = acq_call.query_sequences[index]
V3TemplateHit(seq) ==
    /\ Before("template", seq).exists
    /\ Before("template", seq).payload.residues = Len(seq)
V3MsaHit(seq) ==
    /\ Before("msa", seq).exists
    /\ splitlines(Before("msa", seq).payload)[2] = seq

\* what a search is called with: nothing when it is not wanted or nothing
\* missed, else the sequences at the missed indices, in order
ExpectedSearch(wanted, seqs, missed) ==
    IF wanted /\ missed # {}
    THEN Some([i \in 1..Cardinality(missed) |-> seqs[ascending(missed)[i]]])
    ELSE None

\* C24: in get_msa_and_templates_v2 and _v3 the template search and the
\* unpaired-alignment search are called with exactly the sequences whose
\* lookup missed, in the order of the unique sequences; a search none of
\* whose sequences missed is not called, and its store is left as it was.
C24_SearchOnlyForMisses ==
    /\ acq_call.fn = "v2" =>
         LET qs == acq_call.query_sequences
         IN  /\ acq_ret.out.template_search =
                  ExpectedSearch(acq_call.use_templates, qs,
                      {index \in DOMAIN qs : ~V2TemplateHit(index)})
             /\ acq_ret.out.msa_search =
                  ExpectedSearch(MsaWanted /\ acq_ret.out.exc = "none", qs,
                      {index \in DOMAIN qs : ~V2MsaHit(index)})
    /\ acq_call.fn = "v3" =>
         LET qs == acq_ret.out.query_seqs_unique
         IN  /\ acq_ret.out.template_search =
                  ExpectedSearch(acq_call.use_templates, qs,
                      {index \in DOMAIN qs : ~V3TemplateHit(qs[index])})
             /\ acq_ret.out.msa_search =
                  ExpectedSearch(MsaWanted, qs,
                      {index \in DOMAIN qs : ~V3MsaHit(qs[index])})
    /\ acq_call.fn \in {"v2", "v3"} =>
         /\ ~acq_ret.out.template_search.some
               => acq_store["template"] = acq_ret.before["template"]
         /\ ~acq_ret.out.msa_search.some
               => acq_store["msa"] = acq_ret.before["msa"]

\* a call of two unique sequences of which the first hit both stores and
\* the second missed both: each search ran for the second alone
C24_Witness ==
    /\ acq_call.fn \in {"v2", "v3"}
    /\ acq_call.use_templates
    /\ acq_call.query_sequences = <<Seq1, Seq2>>
    /\ acq_ret.out.exc = "none"
    /\ acq_ret.out.template_search = Some(<<Seq2>>)
    /\ acq_ret.out.msa_search = Some(<<Seq2>>)

\* the sequence of chain k as the routine of the last call takes it: v2
\* cuts it to the region of the job name, the other two take it whole
ChainSeq(k) ==
    IF acq_call.fn = "v2" THEN OwnSeq(k) ELSE acq_call.query_sequences[k]

\* the first chain with the sequence seq
FirstChain(seq) ==
    CHOOSE k \in DOMAIN acq_call.query_sequences :
        /\ ChainSeq(k) = seq
        /\ \A m \in 1..(k - 1) : ChainSeq(m) # seq

\* C25: each of the three routines returns as unique sequences the
\* distinct chain sequences in first-seen order, no sequence twice, with
\* cardinality[i] the number of chains equal to unique sequence i, so that
\* the cardinalities add up to the number of chains.
C25_UniqueWithCardinality ==
    (acq_call.fn # "none" /\ acq_ret.out.exc = "none") =>
        LET chains == DOMAIN acq_call.query_sequences
            u == acq_ret.out.query_seqs_unique
            c == acq_ret.out.query_seqs_cardinality
        IN  /\ Len(c) = Len(u)
            /\ \A i, k \in DOMAIN u : i # k => u[i] # u[k]
            /\ {u[i] : i \in DOMAIN u} = {ChainSeq(k) : k \in chains}
            /\ \A i \in DOMAIN u :
                 c[i] = Cardinality({k \in chains : ChainSeq(k) = u[i]})
            /\ SumTo(c, Len(c)) = Len(acq_call.query_sequences)
            /\ \A i, k \in DOMAIN u :
                 i < k => FirstChain(u[i]) < FirstChain(u[k])

\* the chains of the last call for which the job name gives a valid region
WithRegion ==
    IF LastValidName
    THEN {index \in DOMAIN acq_call.query_sequences :
             LastRegions[index][2] # -1}
    ELSE {}

\* end - start + 1 of the region of a chain
RegionLength(index) == LastRegions[index][2] - LastRegions[index][1] + 1

\* C28: get_msa_and_templates_v2 returns, for every chain whose job name
\* gives a valid region, a sequence, a template feature and unpaired
\* alignment rows (inserts not counted) of end - start + 1 residues,
\* whether the template came from the store, from a search that found
\* templates, from a search that found none at all, or templates are off.
C28_RegionLengths ==
    Acquired("v2") =>
        \A index \in WithRegion :
            /\ Len(acq_ret.out.query_seqs_unique[index])
                   = RegionLength(index)
            /\ acq_ret.out.template_features[index].residues
                   = RegionLength(index)
            /\ \A r \in RowSet(acq_ret.out.a3m_lines.v[index]) :
                   Len(MatchColumns(r[2])) = RegionLength(index)

\* the chain that unique sequence i of the last call stands for: v2 keeps
\* every chain, the other two the first chain of each sequence
ChainOf(i) ==
    IF acq_call.fn = "v2" THEN i
    ELSE FirstChain(acq_ret.out.query_seqs_unique[i])

\* C29: in single_sequence mode each routine returns for unique sequence i
\* (counted from 0) the one record '>{101+i}' with chain i's own sequence,
\* in v2 cut to chain i's own region where the job name gives a valid one;
\* no other chain's sequence or region is used (pair mode "paired" of a
\* complex returns no unpaired alignment and is left aside).
C29_SingleSequenceOwnChain ==
    (/\ acq_call.fn # "none"
     /\ acq_call.msa_mode = "single_sequence"
     /\ acq_ret.out.exc = "none"
     /\ acq_ret.out.a3m_lines.some)
    => \A i \in DOMAIN acq_ret.out.query_seqs_unique :
           acq_ret.out.a3m_lines.v[i] =
               <<GT>> \o str(101 + i - 1) \o <<NL>> \o ChainSeq(ChainOf(i))

====
